---- MODULE Spec2Model ----
(***************************************************************************)
(* Model of the pipeline persistence and gating engine of backflip-bdr:    *)
(* the CRM store (db/models.py), the repositories over it                  *)
(* (db/repositories/*.py), the transactional session (db/connection.py)    *)
(* and the orchestrator's persistence blocks (agent.py).                   *)
(*                                                                         *)
(* The committed database is the variable `store`, a record of tables,     *)
(* each a set of rows.  A repository function is an operator from a        *)
(* database (the session's view) to an Outcome: the view after it, its     *)
(* return value, and the kind of exception it raised ("none", "db" for an  *)
(* error raised by the database, which aborts the transaction, "py" for an *)
(* exception raised by Python code between statements).  get_db turns the  *)
(* outcome of a whole `async with get_db()` block into the next committed  *)
(* database.                                                               *)
(***************************************************************************)
EXTENDS Integers, Sequences, FiniteSets, TLC

VARIABLES
    store,      \* the committed database: a record of tables
    now,        \* datetime.now(timezone.utc), as a tick count
    last,       \* the last operation: its name, arguments, return value, exception
    booking,    \* the run_meeting_booking in progress, between its agent run and its persist
    placed,     \* the calls the voice collaborator has placed: [email, at]
    sessions,   \* the transactions in flight: the rows each has written, uncommitted
    discovery,  \* the run_discovery in progress: its position and its local variables
    caller      \* what the last run_* function gave its caller, and what it had failed to write

vars == <<store, now, last, booking, placed, sessions, discovery, caller>>

----------------------------------------------------------------------------
(* Bounds of the model *)

MaxClock == 1        \* `now` ranges over 0..MaxClock
MaxSeq == 2          \* rows of crm.email_sequences
MaxTouchRows == 4    \* rows of crm.email_touches
MaxTouchesIn == 4    \* length of the `touches` list given to create_sequence
MaxReplies == 2      \* rows of crm.inbound_replies
MaxCalls == 2        \* rows of crm.call_records
MaxMeetings == 2     \* rows of crm.meetings
MaxEvents == 3       \* rows of crm.events
MaxLeads == 2        \* length of the `qualified_leads` list of a discovery run
MaxStatements == 1   \* upserts within one transaction
MaxWrites == 2       \* upserts within one transaction whose keys no other holds

----------------------------------------------------------------------------
(* Values *)

NoId == 0            \* a NULL uuid (Optional[UUID] = None)
NoTime == -1         \* a NULL timestamp
NoText == "NULL"     \* a NULL text column
NoKey == -2          \* touch_data has no "touch_number" key
Unset == "UNSET"     \* the data dict has no such key (a text field)
UnsetInt == -3       \* the data dict has no such key (an id or a date)
NoNumber == -1       \* touch_data["touch_number"] is None
NoScore == -999      \* a NULL icp_score

Min(a, b) == IF a < b THEN a ELSE b

\* An email is a string: a sequence of characters.
Lower(s) ==
    [i \in 1..Len(s) |-> IF s[i] = "A" THEN "a"
                         ELSE IF s[i] = "B" THEN "b"
                         ELSE IF s[i] = "C" THEN "c"
                         ELSE s[i]]

RECURSIVE LStrip(_)
LStrip(s) == IF s # <<>> /\ Head(s) = " " THEN LStrip(Tail(s)) ELSE s

RECURSIVE RStrip(_)
RStrip(s) == IF s # <<>> /\ s[Len(s)] = " " THEN RStrip(SubSeq(s, 1, Len(s) - 1)) ELSE s

Strip(s) == RStrip(LStrip(s))

\* email.lower().strip()
NormEmail(email) == Strip(Lower(email))

EmailA == <<"a", "@", "x">>
EmailB == <<"b", "@", "x">>
RawA == <<"A", "@", "x", " ">>     \* EmailA as a caller may write it
RawEmails == {EmailA, RawA, EmailB}
EmailC == <<"c", "@", "x">>
RawC == <<" ", "C", "@", "x">>     \* EmailC in capitals, after a space
UpperC == <<"C", "@", "x">>        \* EmailC in capitals
NoEmail == <<"NULL">>              \* data has no "email" key, or data["email"] is None
Domains == {"acme.org", "expo.com"}
Names == {"Acme", "Acme Events"}
MessageIds == {"msg-001", "msg-002"}

TOUCH_STATUSES == {"scheduled", "sent", "bounced", "failed", "cancelled"}
CLASSIFICATIONS == {"INTERESTED", "NURTURE", "NOT_FIT", "UNSUBSCRIBE"}
SUPPRESSION_SOURCES == {"unsubscribe_reply", "manual", "bounce"}
PIPELINE_STAGES ==
    {"discovered", "enriched", "scored", "qualified", "rejected", "in_sequence",
     "touch_1_sent", "touch_2_sent", "touch_3_sent", "replied_interested",
     "call_permission_sent", "call_permission_granted", "call_attempted",
     "booked", "meeting_held", "became_client", "nurture", "closed_lost",
     "unsubscribed"}

----------------------------------------------------------------------------
(* The store *)

EmptyStore ==
    [organizations    |-> {},
     events           |-> {},
     contacts         |-> {},
     suppression_list |-> {},
     email_sequences  |-> {},
     email_touches    |-> {},
     inbound_replies  |-> {},
     call_records     |-> {},
     meetings         |-> {}]

\* A fresh primary key (uuid4): rows are never deleted, so the row count names it.
NewId(table) == Cardinality(table) + 1

Ids(table) == {r.id : r \in table}

\* A nullable foreign key holds: NULL, or the id of a row of the table.
FkOk(id, table) == id = NoId \/ id \in Ids(table)

Outcome(db, ret, exc) == [db |-> db, ret |-> ret, exc |-> exc]

\* async with get_db(): commit when the block ends normally, rollback when it
\* raised.  A transaction the database has aborted cannot be committed.
get_db_commit_anyway(committed, r) == IF r.exc = "db" THEN committed ELSE r.db

get_db_no_commit(committed, r) == committed

get_db(committed, r) == IF r.exc = "none" THEN r.db ELSE committed

\* `last` names the last operation, its arguments, what it returned and the
\* kind of exception it raised.  What it returned is a sequence of integers:
\* <<>> for None, <<id>> for a row, <<n>> for a count, the ids of a list of rows.
NoOp == [op |-> "none", args |-> <<>>, ret |-> <<>>, exc |-> "none"]

Did(op, args, ret, exc) == [op |-> op, args |-> args, ret |-> ret, exc |-> exc]

\* the return value of an operation that returns a row
RowRet(r) == IF r.exc = "none" THEN <<r.ret.id>> ELSE <<>>

\* the return value of an operation that returns the id of a row, or None
IdRet(r) == IF r.exc # "none" \/ r.ret = NoId THEN <<>> ELSE <<r.ret>>

----------------------------------------------------------------------------
(* Organizations and contacts *)

\* the value a column takes from the call: the supplied one, or `default`
Supplied(v, default) == IF v = Unset THEN default ELSE v

SuppliedInt(v, default) == IF v = UnsetInt THEN default ELSE v

\* data.get(k, unset): the value of key k, or `unset` when the dict has no such key
Field(data, k, unset) == IF k \in DOMAIN data THEN data[k] ELSE unset

\* the keys of Organization columns a data dict may hold beside its texts
OrgInts(data) ==
    {Field(data, "icp_score", UnsetInt), Field(data, "next_outreach_date", UnsetInt)}

\* on_conflict_do_update(set_={}) raises ValueError before any statement
EmptySet(texts, ints) == texts \subseteq {Unset} /\ ints \subseteq {UnsetInt}

\* the tuple INSERT proposes for crm.organizations
OrgRow(db, data, t) ==
    [id |-> NewId(db.organizations),
     domain |-> Supplied(data.domain, NoText),
     name |-> Supplied(data.name, NoText),
     pipeline_stage |-> Supplied(data.pipeline_stage, "discovered"),
     notes |-> Supplied(data.notes, NoText),
     icp_score |-> SuppliedInt(Field(data, "icp_score", UnsetInt), NoScore),
     next_outreach_date |-> SuppliedInt(Field(data, "next_outreach_date", UnsetInt), NoTime),
     disqualified |-> Supplied(Field(data, "disqualified", Unset), "false") = "true",
     updated_at |-> t]

\* NOT NULL on name and domain, ck_org_pipeline_stage
OrgRowOk(row) ==
    /\ row.domain # NoText
    /\ row.name # NoText
    /\ row.pipeline_stage \in PIPELINE_STAGES

\* INSERT ... ON CONFLICT (domain) DO UPDATE SET <supplied fields> RETURNING;
\* the proposed tuple is checked against the constraints before the conflict
org_upsert_do_nothing(db, data, t) ==
    LET existing == {o \in db.organizations : o.domain = data.domain}
        proposed == OrgRow(db, data, t)
        row == IF existing = {} THEN proposed ELSE CHOOSE o \in existing : TRUE
    IN IF EmptySet({data.name, data.pipeline_stage, data.notes,
                    Field(data, "disqualified", Unset)}, OrgInts(data))
       THEN Outcome(db, NoId, "py")
       ELSE IF ~OrgRowOk(proposed)
       THEN Outcome(db, NoId, "db")
       ELSE Outcome([db EXCEPT !.organizations = (@ \ existing) \cup {row}], row, "none")

org_upsert(db, data, t) ==
    LET existing == {o \in db.organizations : o.domain = data.domain}
        proposed == OrgRow(db, data, t)
        row == IF existing = {}
               THEN proposed
               ELSE [(CHOOSE o \in existing : TRUE) EXCEPT
                        !.name = Supplied(data.name, @),
                        !.pipeline_stage = Supplied(data.pipeline_stage, @),
                        !.notes = Supplied(data.notes, @),
                        !.icp_score =
                            SuppliedInt(Field(data, "icp_score", UnsetInt), @),
                        !.next_outreach_date =
                            SuppliedInt(Field(data, "next_outreach_date", UnsetInt), @),
                        !.disqualified =
                            IF Field(data, "disqualified", Unset) = Unset THEN @
                            ELSE Field(data, "disqualified", Unset) = "true"]
    IN IF EmptySet({data.name, data.pipeline_stage, data.notes,
                    Field(data, "disqualified", Unset)}, OrgInts(data))
       THEN Outcome(db, NoId, "py")
       ELSE IF ~OrgRowOk(proposed)
       THEN Outcome(db, NoId, "db")
       ELSE Outcome([db EXCEPT !.organizations = (@ \ existing) \cup {row}], row, "none")

\* UPDATE organizations SET pipeline_stage = :stage, updated_at = now()
\*   WHERE id = :org_id RETURNING
update_stage_unchecked(db, org_id, stage, t) ==
    LET hit == {o \in db.organizations : o.id = org_id}
        upd == {[o EXCEPT !.pipeline_stage = stage, !.updated_at = t] : o \in hit}
    IN Outcome([db EXCEPT !.organizations = (@ \ hit) \cup upd],
               IF hit = {} THEN NoId ELSE org_id, "none")

update_stage(db, org_id, stage, t) ==
    LET hit == {o \in db.organizations : o.id = org_id}
        upd == {[o EXCEPT !.pipeline_stage = stage, !.updated_at = t] : o \in hit}
    IN IF hit # {} /\ stage \notin PIPELINE_STAGES
       THEN Outcome(db, NoId, "db")
       ELSE Outcome([db EXCEPT !.organizations = (@ \ hit) \cup upd],
                    IF hit = {} THEN NoId ELSE org_id, "none")

\* the tuple INSERT proposes for crm.events
EventRow(db, org_id, event_data) ==
    [id |-> NewId(db.events),
     org_id |-> org_id,
     event_name |-> Supplied(event_data.event_name, NoText),
     event_type |-> Supplied(event_data.event_type, NoText),
     event_date |-> SuppliedInt(event_data.event_date, NoTime)]

\* INSERT ... ON CONFLICT (org_id, event_name) DO UPDATE SET <supplied fields> RETURNING
event_upsert_by_name(db, org_id, event_data) ==
    LET existing == {e \in db.events : e.event_name = event_data.event_name}
        proposed == EventRow(db, org_id, event_data)
        row == IF existing = {}
               THEN proposed
               ELSE [(CHOOSE e \in existing : TRUE) EXCEPT
                        !.event_type = Supplied(event_data.event_type, @),
                        !.event_date = SuppliedInt(event_data.event_date, @)]
    IN IF EmptySet({event_data.event_type}, {event_data.event_date})
       THEN Outcome(db, NoId, "py")
       ELSE IF \/ org_id \notin Ids(db.organizations)
               \/ proposed.event_name = NoText
       THEN Outcome(db, NoId, "db")
       ELSE Outcome([db EXCEPT !.events = (@ \ existing) \cup {row}], row, "none")

event_upsert(db, org_id, event_data) ==
    LET existing == {e \in db.events :
                        e.org_id = org_id /\ e.event_name = event_data.event_name}
        proposed == EventRow(db, org_id, event_data)
        row == IF existing = {}
               THEN proposed
               ELSE [(CHOOSE e \in existing : TRUE) EXCEPT
                        !.event_type = Supplied(event_data.event_type, @),
                        !.event_date = SuppliedInt(event_data.event_date, @)]
    IN IF EmptySet({event_data.event_type}, {event_data.event_date})
       THEN Outcome(db, NoId, "py")
       ELSE IF \/ org_id \notin Ids(db.organizations)
               \/ proposed.event_name = NoText
       THEN Outcome(db, NoId, "db")
       ELSE Outcome([db EXCEPT !.events = (@ \ existing) \cup {row}], row, "none")

\* A date is written 100 * m + d: day d of the m-th month after January 2026,
\* so that dates compare as their numbers do.  The days of month m:
DaysIn(m) ==
    IF m % 12 = 1 THEN (IF (m \div 12) % 4 = 2 THEN 29 ELSE 28)
    ELSE IF m % 12 \in {3, 5, 8, 10} THEN 30
    ELSE 31

\* date + relativedelta(months=k): the same day of the later month, or the
\* last day of that month when it has no such day
AddMonths(date, k) ==
    LET m == (date \div 100) + k
    IN 100 * m + Min(date % 100, DaysIn(m))

\* datetime.now(timezone.utc).date() at tick t: 2026-01-01, 2026-10-31, 2027-07-31, ...
Today(t) == 100 * (9 * t) + Min(1 + 30 * t, 31)

\* Event.outreach_window_open: event_date - relativedelta(months=12), None
\* without an event_date
outreach_window_open(e) ==
    IF e.event_date = NoTime THEN NoTime ELSE AddMonths(e.event_date, -12)

\* Event.outreach_window_close: event_date - relativedelta(months=4)
outreach_window_close(e) ==
    IF e.event_date = NoTime THEN NoTime ELSE AddMonths(e.event_date, -4)

\* WHERE event_date >= window_open AND event_date <= window_close: a NULL
\* event_date satisfies neither comparison
InWindow(db, months_min, months_max, t) ==
    {e \in db.events :
        /\ e.event_date # NoTime
        /\ e.event_date >= AddMonths(Today(t), months_min)
        /\ e.event_date <= AddMonths(Today(t), months_max)}

\* the lists a SELECT ... ORDER BY event_date may return for the rows `found`:
\* every row once, dates ascending, rows of equal date in any order
OrderedByEventDate(found) ==
    {f \in [1..Cardinality(found) -> Ids(found)] :
        /\ \A i, j \in DOMAIN f : i # j => f[i] # f[j]
        /\ \A i, j \in DOMAIN f : i < j =>
              \A a, b \in found : a.id = f[i] /\ b.id = f[j]
                                    => a.event_date <= b.event_date}

\* the lists of event ids get_upcoming_events may return at tick t
get_upcoming_events_exclusive(db, months_min, months_max, t) ==
    OrderedByEventDate({e \in InWindow(db, months_min, months_max, t) :
                           /\ e.event_date > AddMonths(Today(t), months_min)
                           /\ e.event_date < AddMonths(Today(t), months_max)})

get_upcoming_events(db, months_min, months_max, t) ==
    OrderedByEventDate(InWindow(db, months_min, months_max, t))

\* the lists a SELECT without ORDER BY may return for the ids: each once, in any order
AnyOrder(ids) ==
    {f \in [1..Cardinality(ids) -> ids] : \A i, j \in DOMAIN f : i # j => f[i] # f[j]}

\* SELECT organizations JOIN events: one row for every event in the window
get_in_event_window_joined(db, months_min, months_max, t) ==
    LET found == {e \in InWindow(db, months_min, months_max, t) :
                     \E o \in db.organizations : o.id = e.org_id /\ ~o.disqualified}
    IN {[i \in DOMAIN f |-> (CHOOSE e \in found : e.id = f[i]).org_id] :
           f \in AnyOrder(Ids(found))}

\* SELECT organizations WHERE id IN (SELECT DISTINCT org_id FROM events WHERE
\*   <in the window>) AND disqualified = false: the lists of organization ids
\* get_in_event_window may return at tick t
get_in_event_window(db, months_min, months_max, t) ==
    LET org_ids_sq == {e.org_id : e \in InWindow(db, months_min, months_max, t)}
    IN AnyOrder({o.id : o \in {o \in db.organizations :
                                  o.id \in org_ids_sq /\ ~o.disqualified}})

\* SELECT organizations WHERE next_outreach_date <= now AND disqualified = false:
\* a NULL date compares as unknown, so its row is not selected
get_due_for_outreach(db, t) ==
    AnyOrder({o.id : o \in {o \in db.organizations :
                               /\ o.next_outreach_date # NoTime
                               /\ o.next_outreach_date <= t
                               /\ ~o.disqualified}})

\* select(Contact).where(Contact.email == email.lower().strip())
get_by_email_exact(db, email) ==
    LET found == {c \in db.contacts : c.email = email}
    IN IF found = {} THEN [id |-> NoId, email |-> <<>>, org_id |-> NoId, name |-> NoText]
       ELSE CHOOSE c \in found : TRUE

get_by_email(db, email) ==
    LET found == {c \in db.contacts : c.email = NormEmail(email)}
    IN IF found = {} THEN [id |-> NoId, email |-> <<>>, org_id |-> NoId, name |-> NoText]
       ELSE CHOOSE c \in found : TRUE

\* data["email"].lower().strip(), then
\* INSERT ... ON CONFLICT (email) DO UPDATE SET <supplied fields> RETURNING
contact_upsert_replace(db, data) ==
    LET email == NormEmail(data.email)
        existing == {c \in db.contacts : c.email = email}
        org_id == SuppliedInt(data.org_id, NoId)
        row == [id |-> IF existing = {} THEN NewId(db.contacts)
                       ELSE (CHOOSE c \in existing : TRUE).id,
                email |-> email,
                org_id |-> org_id,
                name |-> Supplied(data.name, NoText)]
    IN IF data.email = NoEmail \/ EmptySet({data.name}, {data.org_id})
       THEN Outcome(db, NoId, "py")
       ELSE IF ~FkOk(org_id, db.organizations)
       THEN Outcome(db, NoId, "db")
       ELSE Outcome([db EXCEPT !.contacts = (@ \ existing) \cup {row}], row, "none")

contact_upsert(db, data) ==
    LET email == NormEmail(data.email)
        existing == {c \in db.contacts : c.email = email}
        org_id == SuppliedInt(data.org_id, NoId)
        row == IF existing = {}
               THEN [id |-> NewId(db.contacts), email |-> email,
                     org_id |-> org_id, name |-> Supplied(data.name, NoText)]
               ELSE [(CHOOSE c \in existing : TRUE) EXCEPT
                        !.org_id = SuppliedInt(data.org_id, @),
                        !.name = Supplied(data.name, @)]
    IN IF data.email = NoEmail \/ EmptySet({data.name}, {data.org_id})
       THEN Outcome(db, NoId, "py")
       ELSE IF ~FkOk(org_id, db.organizations)
       THEN Outcome(db, NoId, "db")
       ELSE Outcome([db EXCEPT !.contacts = (@ \ existing) \cup {row}], row, "none")

\* a website is a string, written as its parts: a scheme, "www.", a host, a path
Scheme == "https://"
PathParts == {"/about"}

RECURSIVE Join(_)
Join(parts) == IF parts = <<>> THEN "" ELSE Head(parts) \o Join(Tail(parts))

\* the parts before the first path
RECURSIVE UpToPath(_)
UpToPath(parts) ==
    IF parts = <<>> \/ Head(parts) \in PathParts THEN <<>>
    ELSE <<Head(parts)>> \o UpToPath(Tail(parts))

\* urllib.parse.urlparse(website).netloc: empty when the website has no scheme
Netloc(website) ==
    IF website # <<>> /\ Head(website) = Scheme THEN UpToPath(Tail(website)) ELSE <<>>

\* netloc = parsed.netloc or website; domain = netloc.removeprefix("www.")
DomainOf(website) ==
    LET netloc == IF Netloc(website) # <<>> THEN Netloc(website) ELSE website
    IN Join(IF netloc # <<>> /\ Head(netloc) = "www." THEN Tail(netloc) ELSE netloc)

\* for contact in lead.get("contacts", []): contact_repo.upsert(session, {...})
RECURSIVE persist_contacts(_, _, _, _)
persist_contacts(db, org_id, contacts, i) ==
    IF i > Len(contacts) THEN Outcome(db, <<>>, "none")
    ELSE LET r == contact_upsert(db, [email |-> contacts[i], org_id |-> org_id,
                                      name |-> ""])
         IN IF r.exc # "none" THEN Outcome(r.db, <<>>, r.exc)
            ELSE persist_contacts(r.db, org_id, contacts, i + 1)

\* the body of run_discovery's loop over the qualified leads, for one lead
persist_lead(db, lead, t) ==
    LET domain == DomainOf(lead.website)
        r1 == org_upsert(db, [domain |-> domain, name |-> Supplied(lead.name, ""),
                              pipeline_stage |-> "scored", notes |-> Unset,
                              icp_score |-> Field(lead, "score", NoScore)], t)
        r2 == persist_contacts(r1.db, r1.ret.id, lead.contacts, 1)
        r3 == event_upsert(r2.db, r1.ret.id,
                           [event_type |-> lead.event_type,
                            event_name |-> Supplied(lead.name, lead.event_type),
                            event_date |-> UnsetInt])
    IN IF domain = "" THEN Outcome(db, <<>>, "none")
       ELSE IF r1.exc # "none" THEN Outcome(r1.db, <<>>, r1.exc)
       ELSE IF r2.exc # "none" THEN r2
       ELSE IF lead.event_type \in {NoText, ""} THEN r2
       ELSE Outcome(r3.db, <<>>, r3.exc)

\* the loop with a try around each lead: a lead that fails is left out
RECURSIVE persist_leads_skipping(_, _, _, _)
persist_leads_skipping(db, qualified, i, t) ==
    IF i > Len(qualified) THEN Outcome(db, <<>>, "none")
    ELSE LET r == persist_lead(db, qualified[i], t)
         IN persist_leads_skipping(IF r.exc # "none" THEN db ELSE r.db, qualified, i + 1, t)

\* run_discovery's "Persist Stage 1 results" block, the body of its get_db
RECURSIVE persist_leads(_, _, _, _)
persist_leads(db, qualified, i, t) ==
    IF i > Len(qualified) THEN Outcome(db, <<>>, "none")
    ELSE LET r == persist_lead(db, qualified[i], t)
         IN IF r.exc # "none" THEN r ELSE persist_leads(r.db, qualified, i + 1, t)

\* contacts.is_suppressed
is_suppressed_exact(db, email) ==
    \E s \in db.suppression_list : s.email = email

is_suppressed(db, email) ==
    \E s \in db.suppression_list : s.email = NormEmail(email)

----------------------------------------------------------------------------
(* Sequences and touches *)

\* the touch lists a caller supplies: touch_number of each touch, in order
GoodNumbers(n) == [i \in 1..n |-> Min(i, 3)]
BadNumbers == {NoKey, NoNumber, 0, 4}
TouchNumberLists ==
    {GoodNumbers(n) : n \in 0..MaxTouchesIn}
    \cup {[GoodNumbers(n) EXCEPT ![n] = b] : n \in 1..MaxTouchesIn, b \in BadNumbers}

\* scheduled_date of the i-th touch: None (as run_discovery passes), or a date
ScheduledDate(dated, i) == IF dated THEN Min(i - 1, MaxClock) ELSE NoTime

\* ck_email_touch_number and touch_number NOT NULL
TouchNumberOk(n) == n \in 1..3

\* the rows create_sequence's loop has added to the session for touches 1..k
TouchRows(db, seq_id, org_id, contact_id, numbers, dated, k) ==
    {[id |-> Cardinality(db.email_touches) + i,
      sequence_id |-> seq_id,
      org_id |-> org_id,
      contact_id |-> contact_id,
      touch_number |-> numbers[i],
      scheduled_date |-> ScheduledDate(dated, i),
      sent_at |-> NoTime,
      status |-> "scheduled",
      message_id |-> NoText] : i \in 1..k}

\* the first touch whose dict has no "touch_number" key, or 0
RECURSIVE FirstNoKey(_, _)
FirstNoKey(numbers, i) ==
    IF i > Len(numbers) THEN 0
    ELSE IF numbers[i] = NoKey THEN i
    ELSE FirstNoKey(numbers, i + 1)

\* fault: 0 none, 1 the first flush raises, 2 the second flush raises
create_sequence(db, org_id, contact_id, numbers, dated, hook, icp_snapshot, fault) ==
    LET sequence == [id |-> NewId(db.email_sequences),
                     org_id |-> org_id,
                     contact_id |-> contact_id,
                     personalization_hook |-> hook,
                     icp_profile_snapshot |-> icp_snapshot,
                     status |-> "active",
                     supplied |-> Len(numbers)]
        db1 == [db EXCEPT !.email_sequences = @ \cup {sequence}]
        nokey == FirstNoKey(numbers, 1)
        rows(k) == TouchRows(db, sequence.id, org_id, contact_id, numbers, dated, k)
    IN IF fault = 1 \/ ~FkOk(org_id, db.organizations) \/ ~FkOk(contact_id, db.contacts)
       THEN Outcome(db, NoId, "db")
       ELSE IF nokey # 0
       THEN \* KeyError in the loop: the sequence is flushed, earlier touches are pending
            Outcome([db1 EXCEPT !.email_touches = @ \cup rows(nokey - 1)], NoId, "py")
       ELSE IF fault = 2 \/ \E i \in 1..Len(numbers) : ~TouchNumberOk(numbers[i])
       THEN Outcome(db1, NoId, "db")
       ELSE Outcome([db1 EXCEPT !.email_touches = @ \cup rows(Len(numbers))],
                    sequence, "none")


\* the lists a SELECT ... ORDER BY scheduled_date may return for the rows `due`:
\* every row once, dates ascending, rows of equal date in any order
OrderedByDate(due) ==
    {f \in [1..Cardinality(due) -> Ids(due)] :
        /\ \A i, j \in DOMAIN f : i # j => f[i] # f[j]
        /\ \A i, j \in DOMAIN f : i < j =>
              \A a, b \in due : a.id = f[i] /\ b.id = f[j]
                                  => a.scheduled_date <= b.scheduled_date}

\* the query with a NULL scheduled_date taken as due
get_pending_touches_undated(db, t) ==
    OrderedByDate({x \in db.email_touches :
                      /\ x.scheduled_date <= t
                      /\ x.status = "scheduled"})

\* the lists of touch ids get_pending_touches may return at time t; a NULL
\* scheduled_date never satisfies scheduled_date <= now
get_pending_touches(db, t) ==
    OrderedByDate({x \in db.email_touches :
                      /\ x.scheduled_date # NoTime
                      /\ x.scheduled_date <= t
                      /\ x.status = "scheduled"})

\* UPDATE email_touches SET status='sent', ... WHERE id = touch_id RETURNING
mark_touch_sent(db, touch_id, message_id, sent_at, t) ==
    LET hit == {x \in db.email_touches : x.id = touch_id}
        at == IF sent_at = NoTime THEN t ELSE sent_at
        upd == {[x EXCEPT !.status = "sent", !.message_id = message_id, !.sent_at = at]
                   : x \in hit}
    IN Outcome([db EXCEPT !.email_touches = (@ \ hit) \cup upd],
               IF hit = {} THEN NoId ELSE touch_id, "none")

\* UPDATE email_touches SET status='cancelled'
\*   WHERE sequence_id = :sequence_id AND status = 'scheduled' RETURNING id
cancel_remaining_touches_any_status(db, sequence_id) ==
    LET hit == {x \in db.email_touches : x.sequence_id = sequence_id}
        upd == {[x EXCEPT !.status = "cancelled"] : x \in hit}
    IN Outcome([db EXCEPT !.email_touches = (@ \ hit) \cup upd],
               Cardinality(hit), "none")

\* the UPDATE of the touches, and the sequence closed with them
cancel_remaining_touches_closing(db, sequence_id) ==
    LET hit == {x \in db.email_touches :
                   x.sequence_id = sequence_id /\ x.status = "scheduled"}
        upd == {[x EXCEPT !.status = "cancelled"] : x \in hit}
        seqs == {q \in db.email_sequences : q.id = sequence_id}
    IN Outcome([db EXCEPT !.email_touches = (@ \ hit) \cup upd,
                          !.email_sequences =
                              (@ \ seqs) \cup {[q EXCEPT !.status = "cancelled"] : q \in seqs}],
               Cardinality(hit), "none")

cancel_remaining_touches(db, sequence_id) ==
    LET hit == {x \in db.email_touches :
                   x.sequence_id = sequence_id /\ x.status = "scheduled"}
        upd == {[x EXCEPT !.status = "cancelled"] : x \in hit}
    IN Outcome([db EXCEPT !.email_touches = (@ \ hit) \cup upd],
               Cardinality(hit), "none")

----------------------------------------------------------------------------
(* Replies and suppression *)

\* ck_reply_classification
ClassificationOk(classification) == classification \in CLASSIFICATIONS \cup {NoText}

\* fault: the flush raises
record_reply_unchecked(db, org_id, contact_id, classification, recontact_date, fault) ==
    LET reply == [id |-> NewId(db.inbound_replies),
                  org_id |-> org_id,
                  contact_id |-> contact_id,
                  classification |-> classification,
                  recontact_date |-> recontact_date]
    IN IF fault \/ ~FkOk(org_id, db.organizations) \/ ~FkOk(contact_id, db.contacts)
       THEN Outcome(db, <<>>, "db")
       ELSE Outcome([db EXCEPT !.inbound_replies = @ \cup {reply}], <<reply.id>>, "none")

record_reply(db, org_id, contact_id, classification, recontact_date, fault) ==
    LET reply == [id |-> NewId(db.inbound_replies),
                  org_id |-> org_id,
                  contact_id |-> contact_id,
                  classification |-> classification,
                  recontact_date |-> recontact_date]
    IN IF \/ fault
          \/ ~ClassificationOk(classification)
          \/ ~FkOk(org_id, db.organizations)
          \/ ~FkOk(contact_id, db.contacts)
       THEN Outcome(db, <<>>, "db")
       ELSE Outcome([db EXCEPT !.inbound_replies = @ \cup {reply}], <<reply.id>>, "none")

\* INSERT ... ON CONFLICT (email) DO NOTHING RETURNING, then the read-back;
\* ck_suppression_source is checked on the proposed tuple before the conflict
\* fault: the insert raises
add_suppression_overwrite(db, email, reason, source, fault) ==
    LET e == NormEmail(email)
        existing == {x \in db.suppression_list : x.email = e}
        row == [id |-> IF existing = {} THEN NewId(db.suppression_list)
                       ELSE (CHOOSE x \in existing : TRUE).id,
                email |-> e, reason |-> reason, source |-> source]
    IN IF fault \/ source \notin SUPPRESSION_SOURCES
       THEN Outcome(db, <<>>, "db")
       ELSE Outcome([db EXCEPT !.suppression_list = (@ \ existing) \cup {row}],
                    <<row.id>>, "none")

add_suppression_conflict_first(db, email, reason, source, fault) ==
    LET e == NormEmail(email)
        existing == {x \in db.suppression_list : x.email = e}
        row == [id |-> NewId(db.suppression_list),
                email |-> e, reason |-> reason, source |-> source]
    IN IF fault THEN Outcome(db, <<>>, "db")
       ELSE IF existing # {}
       THEN Outcome(db, <<(CHOOSE x \in existing : TRUE).id>>, "none")
       ELSE IF source \notin SUPPRESSION_SOURCES
       THEN Outcome(db, <<>>, "db")
       ELSE Outcome([db EXCEPT !.suppression_list = @ \cup {row}], <<row.id>>, "none")

add_suppression(db, email, reason, source, fault) ==
    LET e == NormEmail(email)
        existing == {x \in db.suppression_list : x.email = e}
        row == [id |-> NewId(db.suppression_list),
                email |-> e, reason |-> reason, source |-> source]
    IN IF fault \/ source \notin SUPPRESSION_SOURCES
       THEN Outcome(db, <<>>, "db")
       ELSE IF existing = {}
       THEN Outcome([db EXCEPT !.suppression_list = @ \cup {row}], <<row.id>>, "none")
       ELSE Outcome(db, <<(CHOOSE x \in existing : TRUE).id>>, "none")

\* run_reply_handler's "Persist reply + classification" block, the body of its
\* get_db.  fault: 0 none, 1 record_reply raises, 2 add_suppression raises
reply_block_swallowing(db, org_id, contact_id, classification, email, recontact_date, fault) ==
    LET r1 == record_reply(db, org_id, contact_id, classification, recontact_date,
                           fault = 1)
        r2 == add_suppression(r1.db, email, "unsubscribed via reply",
                              "unsubscribe_reply", fault = 2)
    IN IF r1.exc # "none" THEN r1
       ELSE IF classification = "UNSUBSCRIBE" /\ email # <<>>
       THEN Outcome(IF r2.exc = "none" THEN r2.db ELSE r1.db, r1.ret, "none")
       ELSE r1

reply_block(db, org_id, contact_id, classification, email, recontact_date, fault) ==
    LET r1 == record_reply(db, org_id, contact_id, classification, recontact_date,
                           fault = 1)
        r2 == add_suppression(r1.db, email, "unsubscribed via reply",
                              "unsubscribe_reply", fault = 2)
    IN IF r1.exc # "none" THEN r1
       ELSE IF classification = "UNSUBSCRIBE" /\ email # <<>>
       THEN Outcome(r2.db, r1.ret, r2.exc)
       ELSE r1

----------------------------------------------------------------------------
(* Calls *)

CALL_STATUSES == {"BOOKED", "NO_ANSWER", "RESCHEDULED", "DECLINED", "SKIPPED"}

\* the row record_call writes: no check of any earlier permission record
CallRow(db, org_id, contact_id, call_permission_granted, call_status, t) ==
    [id |-> NewId(db.call_records),
     org_id |-> org_id,
     contact_id |-> contact_id,
     call_permission_granted |-> call_permission_granted,
     call_permission_granted_at |-> IF call_permission_granted THEN t ELSE NoTime,
     call_status |-> call_status]

\* fault: the flush raises
record_call_replace(db, org_id, contact_id, call_permission_granted, call_status, t, fault) ==
    LET earlier == {c \in db.call_records : c.contact_id = contact_id}
        call == [CallRow(db, org_id, contact_id, call_permission_granted, call_status, t)
                    EXCEPT !.id = IF earlier = {} THEN @
                                  ELSE (CHOOSE c \in earlier : TRUE).id]
    IN IF fault \/ ~FkOk(org_id, db.organizations) \/ ~FkOk(contact_id, db.contacts)
       THEN Outcome(db, <<>>, "db")
       ELSE Outcome([db EXCEPT !.call_records = (@ \ earlier) \cup {call}],
                    <<call.id>>, "none")

record_call(db, org_id, contact_id, call_permission_granted, call_status, t, fault) ==
    LET call == CallRow(db, org_id, contact_id, call_permission_granted, call_status, t)
    IN IF fault \/ ~FkOk(org_id, db.organizations) \/ ~FkOk(contact_id, db.contacts)
       THEN Outcome(db, <<>>, "db")
       ELSE Outcome([db EXCEPT !.call_records = @ \cup {call}], <<call.id>>, "none")

\* session.add(Meeting(..., status="confirmed")); flush
record_meeting(db, org_id, contact_id, call_record_id) ==
    LET meeting == [id |-> NewId(db.meetings),
                    org_id |-> org_id,
                    contact_id |-> contact_id,
                    call_record_id |-> call_record_id,
                    status |-> "confirmed"]
    IN IF \/ ~FkOk(org_id, db.organizations)
          \/ ~FkOk(contact_id, db.contacts)
          \/ ~FkOk(call_record_id, db.call_records)
       THEN Outcome(db, <<>>, "db")
       ELSE Outcome([db EXCEPT !.meetings = @ \cup {meeting}], <<meeting.id>>, "none")

\* run_meeting_booking's "Persist call record and meeting" block, the body of
\* its get_db: the meeting is recorded when the agent confirmed one
\* fault: record_call's flush raises
booking_block(db, org_id, contact_id, call_permission_granted, call_status, confirmed, t, fault) ==
    LET r1 == record_call(db, org_id, contact_id, call_permission_granted,
                          call_status, t, fault)
        r2 == record_meeting(r1.db, org_id, contact_id, r1.ret[1])
    IN IF r1.exc # "none" \/ ~confirmed THEN r1
       ELSE Outcome(r2.db, r1.ret, r2.exc)

\* ConversationalVoiceAgent under its HARD GATE instruction: without permission
\* it answers SKIPPED and calls no tool; with permission it calls
\* elevenlabs_initiate_call and reports the outcome
VoiceAgentOutcomes(call_permission_granted) ==
    IF call_permission_granted
    THEN {[placed |-> TRUE, call_status |-> st] : st \in CALL_STATUSES \ {"SKIPPED"}}
    ELSE {[placed |-> FALSE, call_status |-> "SKIPPED"]}

----------------------------------------------------------------------------
(* Actions *)

Idle == [stage |-> "idle"]

\* no run_discovery is in progress
NotRunning == [pc |-> "idle"]

\* no run_* function has returned yet
NoCaller == [fn |-> "none", raised |-> FALSE, failed |-> {}]

\* a run_* function ends: every one of them ends in `return state`, after its
\* try/except blocks; `failed` names the persistence blocks that raised in it
Returned(fn, failed) == [fn |-> fn, raised |-> FALSE, failed |-> failed]

----------------------------------------------------------------------------
(* Transactions in flight.  A session sees the committed rows and its own    *)
(* writes (READ COMMITTED).  An upsert of a key that another open session    *)
(* has written waits until that session commits or rolls back: the unique    *)
(* index and the row lock of INSERT ... ON CONFLICT DO UPDATE.               *)

\* two pipeline runs, each in a get_db block of its own
Sessions == {1, 2}

\* a session that is not in a get_db block
Closed ==
    [state |-> "closed", orgs |-> {}, contacts |-> {}, org_fields |-> {},
     contact_fields |-> {}, waiting |-> <<>>, waited |-> FALSE, n |-> 0,
     suppressions |-> {}, call |-> <<>>, got |-> {}]

\* the table as a session sees it, and as its commit leaves it: its own
\* versions of the rows it has written, beside the rows it has not
Overlay(table, written) == {r \in table : r.id \notin Ids(written)} \cup written

View(s) ==
    [store EXCEPT !.organizations = Overlay(@, sessions[s].orgs),
                  !.contacts = Overlay(@, sessions[s].contacts),
                  !.suppression_list = Overlay(@, sessions[s].suppressions)]

\* the key of an upsert: the domain, or the email as it will be stored
KeyOf(kind, data) == IF kind = "org" THEN data.domain ELSE NormEmail(data.email)

\* another open session has written the row of this key, or inserted one
Locked_never(s, kind, data) == FALSE

Locked(s, kind, data) ==
    \E u \in Sessions \ {s} :
       IF kind = "org"
       THEN \E o \in sessions[u].orgs : o.domain = KeyOf(kind, data)
       ELSE \E c \in sessions[u].contacts : c.email = KeyOf(kind, data)

\* another open session has inserted a suppression of this email: the
\* conflict-do-nothing insert waits for that session to end
SuppressLocked_never(s, e) == FALSE

SuppressLocked(s, e) ==
    \E u \in Sessions \ {s} : \E x \in sessions[u].suppressions : x.email = e

\* a fresh uuid4 is the id of no row, committed or in flight
FreshId(table, written) ==
    LET used == Ids(table) \cup UNION {Ids(written[u]) : u \in Sessions}
    IN CHOOSE id \in 1..(Cardinality(used) + 1) : id \notin used

\* the fields a call supplies
OrgFields(data) ==
    {<<data.domain, f>> : f \in {f \in {"name", "pipeline_stage", "notes"} : data[f] # Unset}}

ContactFields(data) ==
    {<<NormEmail(data.email), "org_id">> : x \in {data.org_id} \ {UnsetInt}}
    \cup {<<NormEmail(data.email), "name">> : x \in {data.name} \ {Unset}}

\* the store of a fresh database
Init ==
    /\ store = EmptyStore
    /\ now = 0
    /\ last = NoOp
    /\ booking = Idle
    /\ placed = {}
    /\ sessions = [s \in Sessions |-> Closed]
    /\ discovery = NotRunning
    /\ caller = NoCaller

\* the store after a discovery run has persisted one organization with a
\* contact, and a second contact without an organization
SeededStore ==
    [EmptyStore EXCEPT
        !.organizations = {[id |-> 1, domain |-> "acme.org", name |-> "Acme",
                            pipeline_stage |-> "scored", notes |-> NoText,
                            icp_score |-> 70, next_outreach_date |-> NoTime,
                            disqualified |-> FALSE, updated_at |-> 0]},
        !.contacts = {[id |-> 1, email |-> EmailA, org_id |-> 1, name |-> NoText],
                      [id |-> 2, email |-> EmailB, org_id |-> NoId, name |-> NoText]}]

InitSeeded ==
    /\ store = SeededStore
    /\ now = 0
    /\ last = NoOp
    /\ booking = Idle
    /\ placed = {}
    /\ sessions = [s \in Sessions |-> Closed]
    /\ discovery = NotRunning
    /\ caller = NoCaller

\* time passes
Tick ==
    /\ now < MaxClock
    /\ now' = now + 1
    /\ UNCHANGED <<store, last, booking, placed, sessions, discovery, caller>>

\* async with get_db() as session: org_upsert(session, data)
UpsertOrganization(data) ==
    LET r == org_upsert(store, data, now)
    IN /\ store' = get_db(store, r)
       /\ last' = Did("org_upsert", <<data>>, RowRet(r), r.exc)
       /\ UNCHANGED <<now, booking, placed, sessions, discovery, caller>>

\* async with get_db() as session: contact_upsert(session, data)
UpsertContact(data) ==
    LET r == contact_upsert(store, data)
    IN /\ store' = get_db(store, r)
       /\ last' = Did("contact_upsert", <<data>>, RowRet(r), r.exc)
       /\ UNCHANGED <<now, booking, placed, sessions, discovery, caller>>

\* async with get_db() as session: get_by_email(session, email)
GetByEmail(email) ==
    /\ last' = Did("get_by_email", <<email>>,
                   IdRet(Outcome(store, get_by_email(store, email).id, "none")), "none")
    /\ UNCHANGED <<store, now, booking, placed, sessions, discovery, caller>>

\* async with get_db() as session: event_upsert(session, org_id, event_data)
UpsertEvent(org_id, event_data) ==
    LET r == event_upsert(store, org_id, event_data)
    IN /\ Cardinality(get_db(store, r).events) <= MaxEvents
       /\ store' = get_db(store, r)
       /\ last' = Did("event_upsert", <<org_id, event_data>>, RowRet(r), r.exc)
       /\ UNCHANGED <<now, booking, placed, sessions, discovery, caller>>

\* async with get_db() as session:
\*     get_upcoming_events(session, months_min, months_max)
GetUpcomingEvents(months_min, months_max) ==
    \E list \in get_upcoming_events(store, months_min, months_max, now) :
       /\ last' = Did("get_upcoming_events", <<months_min, months_max>>, list, "none")
       /\ UNCHANGED <<store, now, booking, placed, sessions, discovery, caller>>

\* async with get_db() as session:
\*     get_in_event_window(session, months_min, months_max)
GetInEventWindow(months_min, months_max) ==
    \E list \in get_in_event_window(store, months_min, months_max, now) :
       /\ last' = Did("get_in_event_window", <<months_min, months_max>>, list, "none")
       /\ UNCHANGED <<store, now, booking, placed, sessions, discovery, caller>>

\* async with get_db() as session: get_due_for_outreach(session)
GetDueForOutreach ==
    \E list \in get_due_for_outreach(store, now) :
       /\ last' = Did("get_due_for_outreach", <<>>, list, "none")
       /\ UNCHANGED <<store, now, booking, placed, sessions, discovery, caller>>

\* run_discovery from the end of Stage 1 to the end of its persistence: nothing
\* is persisted for an empty list; an exception of the block is logged and the
\* run goes on
PersistLeads(qualified) ==
    LET r == persist_leads(store, qualified, 1, now)
    IN /\ qualified # <<>>
       /\ Cardinality(get_db(store, r).events) <= MaxEvents
       /\ store' = get_db(store, r)
       /\ last' = Did("run_discovery", <<Len(qualified)>>, r.ret, r.exc)
       /\ UNCHANGED <<now, booking, placed, sessions, discovery, caller>>

\* async with get_db() as session: update_stage(session, org_id, stage)
UpdateStage(org_id, stage) ==
    LET r == update_stage(store, org_id, stage, now)
    IN /\ store' = get_db(store, r)
       /\ last' = Did("update_stage", <<org_id, stage>>, IdRet(r), r.exc)
       /\ UNCHANGED <<now, booking, placed, sessions, discovery, caller>>

\* async with get_db() as session: create_sequence(session, ...)
CreateSequence(org_id, contact_id, numbers, dated, fault) ==
    LET r == create_sequence(store, org_id, contact_id, numbers, dated, NoText, NoText,
                             fault)
    IN /\ Cardinality(store.email_sequences) < MaxSeq
       /\ Cardinality(store.email_touches) + Len(numbers) <= MaxTouchRows
       /\ store' = get_db(store, r)
       /\ last' = Did("create_sequence", <<contact_id, numbers>>, RowRet(r), r.exc)
       /\ UNCHANGED <<now, booking, placed, sessions, discovery, caller>>

\* async with get_db() as session:
\*     create_sequence(session, org_id, contact_id, touches, hook, icp_snapshot)
CreateSequenceWith(org_id, contact_id, numbers, hook, icp_snapshot) ==
    LET r == create_sequence(store, org_id, contact_id, numbers, FALSE, hook,
                             icp_snapshot, 0)
    IN /\ Cardinality(store.email_sequences) < MaxSeq
       /\ Cardinality(store.email_touches) + Len(numbers) <= MaxTouchRows
       /\ store' = get_db(store, r)
       /\ last' = Did("create_sequence", <<contact_id, numbers>>, RowRet(r), r.exc)
       /\ UNCHANGED <<now, booking, placed, sessions, discovery, caller>>

\* async with get_db() as session: get_pending_touches(session)
GetPendingTouches ==
    \E list \in get_pending_touches(store, now) :
       /\ last' = [op |-> "get_pending_touches", args |-> <<>>, ret |-> list, exc |-> "none"]
       /\ UNCHANGED <<store, now, booking, placed, sessions, discovery, caller>>

\* async with get_db() as session: mark_touch_sent(session, touch_id, message_id, sent_at)
MarkTouchSent(touch_id, message_id, sent_at) ==
    LET r == mark_touch_sent(store, touch_id, message_id, sent_at, now)
    IN /\ store' = get_db(store, r)
       /\ last' = Did("mark_touch_sent", <<touch_id, message_id, sent_at>>, IdRet(r), r.exc)
       /\ UNCHANGED <<now, booking, placed, sessions, discovery, caller>>

\* async with get_db() as session: cancel_remaining_touches(session, sequence_id)
CancelRemainingTouches(sequence_id) ==
    LET r == cancel_remaining_touches(store, sequence_id)
    IN /\ store' = get_db(store, r)
       /\ last' = Did("cancel_remaining_touches", <<sequence_id>>, <<r.ret>>, r.exc)
       /\ UNCHANGED <<now, booking, placed, sessions, discovery, caller>>

\* async with get_db() as session:
\*     add_suppression(session, email, reason=reason, source=source)
AddSuppression(email, reason, source) ==
    LET r == add_suppression(store, email, reason, source, FALSE)
    IN /\ store' = get_db(store, r)
       /\ last' = Did("add_suppression", <<email, reason, source>>, r.ret, r.exc)
       /\ UNCHANGED <<now, booking, placed, sessions, discovery, caller>>

\* async with get_db() as session:
\*     record_reply(session, org_id, contact_id, None, reply_text, classification)
RecordReply(org_id, contact_id, classification) ==
    LET r == record_reply(store, org_id, contact_id, classification, NoTime, FALSE)
    IN /\ Cardinality(store.inbound_replies) < MaxReplies
       /\ store' = get_db(store, r)
       /\ last' = Did("record_reply", <<org_id, contact_id, classification>>, r.ret, r.exc)
       /\ UNCHANGED <<now, booking, placed, sessions, discovery, caller>>

\* run_reply_handler(lead_id, reply_text, contact_email): the classifier's
\* output is `classification` and the `email` and `recontact_date` of
\* classification_data; the contact is resolved in a get_db of its own, the
\* reply is persisted in the next
RunReplyHandler(contact_email, classification, email, recontact_date, fault) ==
    LET contact == IF contact_email # <<>> THEN get_by_email(store, contact_email)
                   ELSE get_by_email(EmptyStore, contact_email)
        r == reply_block(store, contact.org_id, contact.id, classification, email,
                         recontact_date, fault)
    IN /\ Cardinality(store.inbound_replies) < MaxReplies
       /\ store' = get_db(store, r)
       /\ last' = Did("run_reply_handler",
                      <<contact_email, classification, email, fault, recontact_date>>,
                      r.ret, r.exc)
       /\ caller' = Returned("run_reply_handler",
                             IF r.exc = "none" THEN {} ELSE {"stage3"})
       /\ UNCHANGED <<now, booking, placed, sessions, discovery>>

\* async with get_db() as session: record_call(session, ...)
RecordCall(org_id, contact_id, call_permission_granted, call_status) ==
    LET r == record_call(store, org_id, contact_id, call_permission_granted,
                         call_status, now, FALSE)
    IN /\ Cardinality(store.call_records) < MaxCalls
       /\ store' = get_db(store, r)
       /\ last' = Did("record_call",
                      <<org_id, contact_id, call_permission_granted, call_status>>,
                      r.ret, r.exc)
       /\ UNCHANGED <<now, booking, placed, sessions, discovery, caller>>

\* async with get_db() as session: record_meeting(session, ...)
RecordMeeting(org_id, contact_id, call_record_id) ==
    LET r == record_meeting(store, org_id, contact_id, call_record_id)
    IN /\ Cardinality(store.meetings) < MaxMeetings
       /\ store' = get_db(store, r)
       /\ last' = Did("record_meeting", <<org_id, contact_id, call_record_id>>,
                      r.ret, r.exc)
       /\ UNCHANGED <<now, booking, placed, sessions, discovery, caller>>

\* run_meeting_booking up to the end of run_agent(meeting_booking_team): the
\* voice agent has run and, if it was given permission, has placed the call;
\* the agent may have confirmed a meeting
BookingAgent(contact_email, call_permission_granted, outcome) ==
    /\ booking.stage = "idle"
    /\ Cardinality(store.call_records) < MaxCalls
    /\ [placed |-> outcome.placed, call_status |-> outcome.call_status]
          \in VoiceAgentOutcomes(call_permission_granted)
    /\ booking' = [stage |-> "agent_done",
                   contact_email |-> contact_email,
                   call_permission_granted |-> call_permission_granted,
                   call_status |-> outcome.call_status,
                   confirmed |-> Field(outcome, "confirmed", FALSE)]
    /\ placed' = IF outcome.placed
                 THEN placed \cup {[email |-> NormEmail(contact_email), at |-> now]}
                 ELSE placed
    /\ last' = [op |-> "run_agent", args |-> <<contact_email, call_permission_granted>>,
                ret |-> <<>>, exc |-> "none"]
    /\ UNCHANGED <<store, now, sessions, discovery, caller>>

\* the rest of run_meeting_booking: resolve the contact, persist the call record
BookingPersist(fault) ==
    LET contact == IF booking.contact_email # <<>>
                   THEN get_by_email(store, booking.contact_email)
                   ELSE get_by_email(EmptyStore, booking.contact_email)
        r == booking_block(store, contact.org_id, contact.id,
                           booking.call_permission_granted, booking.call_status,
                           booking.confirmed, now, fault)
    IN /\ booking.stage = "agent_done"
       /\ Cardinality(get_db(store, r).meetings) <= MaxMeetings
       /\ store' = get_db(store, r)
       /\ booking' = Idle
       /\ last' = Did("run_meeting_booking",
                      <<booking.contact_email, booking.call_permission_granted>>,
                      r.ret, r.exc)
       /\ caller' = Returned("run_meeting_booking",
                             IF r.exc = "none" THEN {} ELSE {"stage4"})
       /\ UNCHANGED <<now, placed, sessions, discovery>>

\* the domains and emails the pre-flight reads
get_known_domains(db) == {o.domain : o \in db.organizations}

get_known_emails(db) == {c.email : c \in db.contacts}

\* select(Organization).where(Organization.domain == domain): the row, if any
get_by_domain(db, domain) == {o \in db.organizations : o.domain = domain}

\* str.lower() of the names of leads
LowerName(name) ==
    IF name \in {"Acme", "ACME"} THEN "acme"
    ELSE IF name = "Expo Group" THEN "expo group"
    ELSE name

\* persisted_orgs.get(lead_name.lower()): the ids of the organizations of the
\* leads of that name whose domain is stored; the last such lead wins
PersistedOrgs(db, qualified, lead_name) ==
    LET hits == {i \in DOMAIN qualified :
                    /\ LowerName(qualified[i].name) = LowerName(lead_name)
                    /\ DomainOf(qualified[i].website) # ""
                    /\ get_by_domain(db, DomainOf(qualified[i].website)) # {}}
        top == CHOOSE i \in hits : \A j \in hits : j <= i
    IN IF hits = {} THEN {}
       ELSE Ids(get_by_domain(db, DomainOf(qualified[top].website)))

\* for candidate in qualified: the personalization_hook of the first lead of
\* that name, None when it has none or no lead has the name
RECURSIVE HookOf(_, _, _)
HookOf(qualified, lead_name, i) ==
    IF i > Len(qualified) THEN NoText
    ELSE IF LowerName(qualified[i].name) = LowerName(lead_name)
    THEN Field(qualified[i], "personalization_hook", NoText)
    ELSE HookOf(qualified, lead_name, i + 1)

\* the loop over the sequences of run_discovery's "Persist Stage 2 results"
RECURSIVE persist_sequences(_, _, _, _)
persist_sequences(db, qualified, sequences, i) ==
    IF i > Len(sequences) THEN Outcome(db, <<>>, "none")
    ELSE LET seq == sequences[i]
             orgs == PersistedOrgs(db, qualified, seq.lead_name)
             contact == IF seq.contacts # <<>> /\ seq.contacts[1] # <<>>
                        THEN get_by_email(db, seq.contacts[1])
                        ELSE get_by_email(EmptyStore, <<>>)
             r == create_sequence(db, CHOOSE id \in orgs : TRUE, contact.id,
                                  seq.numbers, FALSE, HookOf(qualified, seq.lead_name, 1),
                                  NoText, 0)  \* outreach_state holds no icp_profile
         IN IF orgs = {} THEN persist_sequences(db, qualified, sequences, i + 1)
            ELSE IF r.exc # "none" THEN Outcome(r.db, <<>>, r.exc)
            ELSE persist_sequences(r.db, qualified, sequences, i + 1)

\* try: async with get_db() ... except Exception: logger.warning(...): the
\* position of run_discovery after the block, whatever the block raised
discovery_next_abort(block, exc) ==
    IF exc # "none" THEN "aborted"
    ELSE IF block = "preflight" THEN "stage1"
    ELSE IF block = "persist1" THEN "stage2"
    ELSE "return"

discovery_next(block, exc) ==
    IF block = "preflight" THEN "stage1"
    ELSE IF block = "persist1" THEN "stage2"
    ELSE "return"

\* the warnings logged so far, with the block that has just ended
Logged(log, block, exc) == IF exc = "none" THEN log ELSE log \cup {block}

\* run_discovery starts: the pre-flight reads, in a get_db of their own.
\* fault: 0 none, 1 the first read raises (the store is unreachable), 2 the
\* second read raises, 3 the commit raises
DiscoveryPreflight(fault) ==
    LET exc == IF fault = 0 THEN "none" ELSE "db"
    IN /\ discovery.pc = "idle"
       /\ discovery' =
             [pc |-> discovery_next("preflight", exc),
              known_domains |-> IF fault = 1 THEN {} ELSE get_known_domains(store),
              known_emails |-> IF fault \in {1, 2} THEN {} ELSE get_known_emails(store),
              qualified |-> <<>>,
              log |-> Logged({}, "preflight", exc)]
       /\ last' = Did("preflight", <<fault>>, <<>>, exc)
       /\ UNCHANGED <<store, now, booking, placed, sessions, caller>>

\* run_agent(lead_discovery_team) returns the qualified leads; with none, the
\* run returns discovery_state
DiscoveryStage1(qualified) ==
    /\ discovery.pc = "stage1"
    /\ discovery' = [discovery EXCEPT
                        !.pc = IF qualified = <<>> THEN "return" ELSE "persist1",
                        !.qualified = qualified]
    /\ last' = Did("stage1", <<Len(qualified)>>, <<>>, "none")
    /\ UNCHANGED <<store, now, booking, placed, sessions, caller>>

\* "Persist Stage 1 results".  fault: the store is unreachable
DiscoveryPersist1(fault) ==
    LET r == IF fault THEN Outcome(store, <<>>, "db")
             ELSE persist_leads(store, discovery.qualified, 1, now)
    IN /\ discovery.pc = "persist1"
       /\ Cardinality(get_db(store, r).events) <= MaxEvents
       /\ store' = get_db(store, r)
       /\ discovery' = [discovery EXCEPT
                           !.pc = discovery_next("persist1", r.exc),
                           !.log = Logged(@, "persist1", r.exc)]
       /\ last' = Did("persist1", <<fault>>, <<>>, r.exc)
       /\ UNCHANGED <<now, booking, placed, sessions, caller>>

\* run_agent(outreach_strategy_team) returns the campaign, which is written
\* to campaign.json; its sequences are persisted in a get_db of their own when
\* there are any.  fault: the store is unreachable
DiscoveryStage2(sequences, fault) ==
    LET r == IF fault THEN Outcome(store, <<>>, "db")
             ELSE persist_sequences(store, discovery.qualified, sequences, 1)
        exc == IF sequences = <<>> THEN "none" ELSE r.exc
    IN /\ discovery.pc = "stage2"
       /\ Cardinality(get_db(store, r).email_sequences) <= MaxSeq
       /\ Cardinality(get_db(store, r).email_touches) <= MaxTouchRows
       /\ store' = IF sequences = <<>> THEN store ELSE get_db(store, r)
       /\ discovery' = [discovery EXCEPT
                           !.pc = discovery_next("persist2", exc),
                           !.log = Logged(@, "persist2", exc)]
       /\ last' = Did("persist2", <<Len(sequences), fault, sequences>>, <<>>, exc)
       /\ UNCHANGED <<now, booking, placed, sessions, caller>>

\* return {**discovery_state, **outreach_state}
DiscoveryReturn ==
    /\ discovery.pc = "return"
    /\ discovery' = NotRunning
    /\ caller' = Returned("run_discovery", discovery.log \ {"preflight"})
    /\ last' = Did("run_discovery_return", <<>>, <<>>, "none")
    /\ UNCHANGED <<store, now, booking, placed, sessions>>

\* async with get_db() as session: the session opens
Begin(s) ==
    /\ sessions[s].state = "closed"
    /\ sessions' = [sessions EXCEPT ![s] = [Closed EXCEPT !.state = "open"]]
    /\ last' = Did("begin", <<s>>, <<>>, "none")
    /\ UNCHANGED <<store, now, booking, placed, discovery, caller>>

\* the upsert runs in session s: on the session's view, its row kept in the
\* session; an upsert that raises ends the block, and get_db rolls back
Execute(s, kind, data) ==
    LET view == View(s)
        r == IF kind = "org" THEN org_upsert(view, data, now)
             ELSE contact_upsert(view, data)
        table == IF kind = "org" THEN view.organizations ELSE view.contacts
        row == IF r.ret.id \in Ids(table) THEN r.ret
               ELSE [r.ret EXCEPT !.id =
                        IF kind = "org"
                        THEN FreshId(store.organizations,
                                     [u \in Sessions |-> sessions[u].orgs])
                        ELSE FreshId(store.contacts,
                                     [u \in Sessions |-> sessions[u].contacts])]
    IN /\ sessions' =
             [sessions EXCEPT ![s] =
                IF r.exc # "none" THEN Closed
                ELSE IF kind = "org"
                THEN [@ EXCEPT !.state = "open", !.waiting = <<>>, !.n = @ + 1,
                               !.orgs = Overlay(@, {row}),
                               !.org_fields = @ \cup OrgFields(data)]
                ELSE [@ EXCEPT !.state = "open", !.waiting = <<>>, !.n = @ + 1,
                               !.contacts = Overlay(@, {row}),
                               !.contact_fields = @ \cup ContactFields(data)]]
       /\ last' = Did("session_upsert", <<s, kind>>,
                      IF r.exc = "none" THEN <<row.id>> ELSE <<>>, r.exc)
       /\ UNCHANGED <<store, now, booking, placed, discovery, caller>>

\* session s issues an upsert: it runs at once, or waits for the session that
\* holds its key
SessionUpsert(s, kind, data) ==
    /\ sessions[s].state = "open"
    /\ sessions[s].n < MaxStatements
    /\ IF Locked(s, kind, data)
       THEN /\ sessions' = [sessions EXCEPT ![s].state = "waiting",
                                            ![s].waiting = <<kind, data>>,
                                            ![s].waited = TRUE]
            /\ last' = Did("wait", <<s, kind>>, <<>>, "none")
            /\ UNCHANGED <<store, now, booking, placed, discovery, caller>>
       ELSE Execute(s, kind, data)

\* session s issues an upsert whose key no other session holds; a block may
\* issue several
BlockUpsert(s, kind, data) ==
    /\ sessions[s].state = "open"
    /\ sessions[s].n < MaxWrites
    /\ ~Locked(s, kind, data)
    /\ Execute(s, kind, data)

\* the session that held the key has ended: the waiting upsert runs
Resume(s) ==
    /\ sessions[s].state = "waiting"
    /\ ~Locked(s, sessions[s].waiting[1], sessions[s].waiting[2])
    /\ Execute(s, sessions[s].waiting[1], sessions[s].waiting[2])

\* add_suppression in session s, its first statement: INSERT ... ON CONFLICT
\* (email) DO NOTHING RETURNING on the session's view, then scalar_one_or_none;
\* ck_suppression_source is checked on the proposed tuple
SuppressExecute(s, email, source) ==
    LET e == NormEmail(email)
        existing == {x \in View(s).suppression_list : x.email = e}
        row == [id |-> FreshId(store.suppression_list,
                               [u \in Sessions |-> sessions[u].suppressions]),
                email |-> e, reason |-> NoText, source |-> source]
        exc == IF source \in SUPPRESSION_SOURCES THEN "none" ELSE "db"
    IN /\ sessions' =
             [sessions EXCEPT ![s] =
                IF exc # "none" THEN Closed
                ELSE [@ EXCEPT !.state = "open", !.waiting = <<>>, !.n = @ + 1,
                               !.suppressions = IF existing = {} THEN @ \cup {row} ELSE @,
                               !.call = <<e, IF existing = {} THEN row.id ELSE NoId>>]]
       /\ last' = Did("session_suppress_insert", <<s, email>>,
                      IF exc = "none" /\ existing = {} THEN <<row.id>> ELSE <<>>, exc)
       /\ UNCHANGED <<store, now, booking, placed, discovery, caller>>

\* session s calls add_suppression: the insert runs at once, or waits for the
\* session that has inserted the email
SuppressInsert(s, email, source) ==
    /\ sessions[s].state = "open"
    /\ sessions[s].call = <<>>
    /\ sessions[s].n < MaxWrites
    /\ IF SuppressLocked(s, NormEmail(email))
       THEN /\ sessions' = [sessions EXCEPT ![s].state = "waiting",
                                            ![s].waiting = <<"suppress", email, source>>,
                                            ![s].waited = TRUE]
            /\ last' = Did("wait", <<s, "suppress">>, <<>>, "none")
            /\ UNCHANGED <<store, now, booking, placed, discovery, caller>>
       ELSE SuppressExecute(s, email, source)

\* the session that had inserted the email has ended: the waiting insert runs
SuppressResume(s) ==
    /\ sessions[s].state = "waiting"
    /\ ~SuppressLocked(s, NormEmail(sessions[s].waiting[2]))
    /\ SuppressExecute(s, sessions[s].waiting[2], sessions[s].waiting[3])

\* add_suppression in session s, from `if row is None` to its return: the
\* read-back SELECT sees what is committed by now; scalar_one raises when it
\* finds no row
SuppressReturn(s) ==
    LET e == sessions[s].call[1]
        found == {x \in View(s).suppression_list : x.email = e}
        id == IF sessions[s].call[2] # NoId THEN sessions[s].call[2]
              ELSE IF found = {} THEN NoId
              ELSE (CHOOSE x \in found : TRUE).id
    IN /\ sessions[s].state = "open"
       /\ sessions[s].call # <<>>
       /\ sessions' =
             [sessions EXCEPT ![s] =
                IF id = NoId THEN Closed
                ELSE [@ EXCEPT !.call = <<>>, !.got = @ \cup {<<e, id>>}]]
       /\ last' = Did("session_suppress", <<s, e>>,
                      IF id = NoId THEN <<>> ELSE <<id>>,
                      IF id = NoId THEN "py" ELSE "none")
       /\ UNCHANGED <<store, now, booking, placed, discovery, caller>>

\* the block of session s ends normally: get_db commits
Commit(s) ==
    LET r == Outcome([store EXCEPT
                         !.organizations = Overlay(@, sessions[s].orgs),
                         !.contacts = Overlay(@, sessions[s].contacts),
                         !.suppression_list = Overlay(@, sessions[s].suppressions)],
                     <<>>, "none")
    IN /\ sessions[s].state = "open"
       /\ sessions[s].call = <<>>
       /\ store' = get_db(store, r)
       /\ sessions' = [sessions EXCEPT ![s] = Closed]
       /\ last' = Did("commit", <<s, IF sessions[s].waited THEN "waited" ELSE "ran">>,
                      <<>>, "none")
       /\ UNCHANGED <<now, booking, placed, discovery, caller>>

\* the block of session s raises between its statements, or its wait is
\* broken off: get_db rolls back
Rollback(s) ==
    /\ sessions[s].state \in {"open", "waiting"}
    /\ store' = get_db(store, Outcome(View(s), <<>>, "py"))
    /\ sessions' = [sessions EXCEPT ![s] = Closed]
    /\ last' = Did("rollback", <<s>>, <<>>, "py")
    /\ UNCHANGED <<now, booking, placed, discovery, caller>>

----------------------------------------------------------------------------
(* Tools: the functions that reach the external services *)

\* the environment variables the tools read; a variable is absent (Unset),
\* holds a usable value, or holds text that is no number
EnvVars ==
    {"EXA_API_KEY", "HUNTER_API_KEY", "ELEVENLABS_API_KEY", "ELEVENLABS_CONV_AGENT_ID",
     "DECLAN_CALENDAR_ID", "GOOGLE_APPLICATION_CREDENTIALS", "CTX_SEARCH_TIMEOUT"}

MaxChanged == 1      \* variables that differ from the configured environment

\* in the configured environment the keys and the calendar are set; the agent
\* id and the timeout are optional and left to their defaults
Envs ==
    LET Configured ==
           [v \in EnvVars |->
               IF v \in {"ELEVENLABS_CONV_AGENT_ID", "CTX_SEARCH_TIMEOUT"}
               THEN Unset ELSE "5"]
    IN {env \in [EnvVars -> {Unset, "5", "abc"}] :
           /\ \A v \in EnvVars \ {"CTX_SEARCH_TIMEOUT"} : env[v] # "abc"
           /\ Cardinality({v \in EnvVars : env[v] # Configured[v]}) <= MaxChanged}

\* what a call of a tool gives: it raised (exc = "py") or it returned a dict
\* with or without an 'error' key and with `payload` items in it
ToolResult(exc, error, payload) == [exc |-> exc, error |-> error, payload |-> payload]

\* a body wholly inside try ... except Exception: the lookup and the request
\* give the payload, or the failure of either gives the error dict;
\* os.environ[v] raises KeyError for an absent variable
Guarded(lookup_fails, request) ==
    IF lookup_fails \/ request = "fails"
    THEN ToolResult("none", TRUE, 0)
    ELSE ToolResult("none", FALSE, 1)

\* exa_search_companies builds its client inside the try; exa_find_contact
\* builds it before its loop, and the loop passes over a query that failed
exa_tools(f, env, request) ==
    IF f = "exa_search_companies"
    THEN Guarded(env["EXA_API_KEY"] = Unset, request)
    ELSE IF env["EXA_API_KEY"] = Unset
         THEN ToolResult("py", FALSE, 0)
         ELSE ToolResult("none", FALSE, IF request = "fails" THEN 0 ELSE 1)

\* every function reads the key inside its try
hunter_tools(f, env, request) == Guarded(env["HUNTER_API_KEY"] = Unset, request)

\* every function reads the key inside its try; elevenlabs_create_conv_agent
\* returns the configured agent without a request
elevenlabs_tools(f, env, request) ==
    IF f = "elevenlabs_create_conv_agent" /\ env["ELEVENLABS_CONV_AGENT_ID"] # Unset
    THEN ToolResult("none", FALSE, 1)
    ELSE Guarded(env["ELEVENLABS_API_KEY"] = Unset, request)

\* every function resolves the calendar id before its try and builds the
\* service inside it
calendar_tools(f, env, calendar_id, request) ==
    IF calendar_id = NoText /\ env["DECLAN_CALENDAR_ID"] = Unset
    THEN ToolResult("py", FALSE, 0)
    ELSE Guarded(env["GOOGLE_APPLICATION_CREDENTIALS"] = Unset, request)

\* ctx_search reads its settings with defaults and parses the timeout before
\* its try
context_harness_tools(f, env, request) ==
    IF env["CTX_SEARCH_TIMEOUT"] = "abc"
    THEN ToolResult("py", FALSE, 0)
    ELSE Guarded(FALSE, request)

\* the functions of each module of tools
ToolsOf ==
    [exa |-> {"exa_search_companies", "exa_find_contact"},
     hunter |-> {"hunter_domain_search", "hunter_verify_email", "hunter_find_email",
                 "hunter_create_lead", "hunter_add_recipient", "hunter_list_campaigns",
                 "hunter_start_campaign"},
     elevenlabs |-> {"elevenlabs_create_conv_agent", "elevenlabs_initiate_call",
                     "elevenlabs_get_call_status"},
     calendar |-> {"get_free_slots", "create_event", "get_event"},
     context_harness |-> {"ctx_search"}]

Tools == UNION {ToolsOf[m] : m \in DOMAIN ToolsOf}

\* one call of tool f in environment env; `request` tells whether the
\* requests the call makes succeed.  last.ret = <<1 if the dict has an
\* 'error' key else 0, the number of payload items>>
ToolCall(f, env, calendar_id, request) ==
    LET r == CASE f \in ToolsOf.exa -> exa_tools(f, env, request)
               [] f \in ToolsOf.hunter -> hunter_tools(f, env, request)
               [] f \in ToolsOf.elevenlabs -> elevenlabs_tools(f, env, request)
               [] f \in ToolsOf.calendar -> calendar_tools(f, env, calendar_id, request)
               [] OTHER -> context_harness_tools(f, env, request)
    IN /\ last' = Did(f, <<env, calendar_id, request>>,
                      IF r.exc = "none" THEN <<IF r.error THEN 1 ELSE 0, r.payload>>
                                        ELSE <<>>,
                      r.exc)
       /\ UNCHANGED <<store, now, booking, placed, sessions, discovery, caller>>

----------------------------------------------------------------------------
(* Specifications *)

\* the store built from nothing by upserts
Next ==
    \/ \E d \in Domains :
          UpsertOrganization([domain |-> d, name |-> "Acme",
                              pipeline_stage |-> "scored", notes |-> Unset])
    \/ \E e \in RawEmails, o \in Ids(store.organizations) \cup {NoId, 9} :
          UpsertContact([email |-> e, org_id |-> o, name |-> Unset])

Spec == Init /\ [][Next]_vars

\* repeated upserts of two organizations with partial field sets
OrgData ==
    [domain : Domains,
     name : Names \cup {Unset},
     pipeline_stage : {"enriched", "bogus", Unset},
     notes : {"hot", Unset}]

NextOrg == \E data \in OrgData : UpsertOrganization(data)

SpecOrg == InitSeeded /\ [][NextOrg]_vars

\* contacts written and looked up under several spellings of their emails
ContactData ==
    [email : {EmailA, RawA, RawC, UpperC, NoEmail},
     org_id : {1, 9, NoId, UnsetInt},
     name : {"Ann", Unset}]

NextContact ==
    \/ \E data \in ContactData : UpsertContact(data)
    \/ \E e \in {EmailA, RawA, EmailC, RawC, UpperC} : GetByEmail(e)

SpecContact == InitSeeded /\ [][NextContact]_vars

\* organizations, contacts and events upserted with partial field sets, and
\* with identities that are empty, blank or missing
NextUpsert ==
    \/ \E data \in [domain : {"acme.org", ""}, name : {"Acme Events", Unset},
                     pipeline_stage : {Unset}, notes : {"hot", Unset}] :
          UpsertOrganization(data)
    \/ \E data \in [email : {RawA, <<" ">>, NoEmail}, org_id : {NoId, UnsetInt},
                     name : {"Ann", Unset}] :
          UpsertContact(data)
    \/ \E event_data \in [event_name : {"Expo", ""}, event_type : {"conference", Unset},
                           event_date : {1, UnsetInt}] :
          UpsertEvent(1, event_data)

SpecUpsert == InitSeeded /\ [][NextUpsert]_vars

\* discovery runs whose leads have websites and contact emails of every shape,
\* beside direct upserts with an empty identity
Websites ==
    {<<Scheme, "www.", "expo.com", "/about">>,    \* https://www.expo.com/about
     <<Scheme>>,                                  \* https://
     <<"www.">>}                                  \* www.

Leads ==
    [website : Websites,
     name : {"Expo Group"},
     contacts : {<<UpperC, <<>>>>, <<NoEmail>>},
     event_type : {"conference", NoText}]

LeadLists == UNION {[1..n -> Leads] : n \in 0..MaxLeads}

NextDiscovery ==
    \/ \E qualified \in LeadLists : PersistLeads(qualified)
    \/ UpsertOrganization([domain |-> "", name |-> "Acme", pipeline_stage |-> Unset,
                            notes |-> Unset])
    \/ \E e \in {<<" ">>, NoEmail} :
          UpsertContact([email |-> e, org_id |-> NoId, name |-> Unset])
    \/ \E n \in {"", Unset} :
          UpsertEvent(1, [event_name |-> n, event_type |-> "conference",
                          event_date |-> UnsetInt])

SpecDiscovery == InitSeeded /\ [][NextDiscovery]_vars

\* events of two organizations, upserted with partial field sets
EventData ==
    [event_name : {"Expo", "Summit", Unset},
     event_type : {"conference", Unset},
     event_date : {1, UnsetInt}]

NextEvent ==
    \/ UpsertOrganization([domain |-> "expo.com", name |-> "Expo Group",
                            pipeline_stage |-> "scored", notes |-> Unset])
    \/ \E org_id \in Ids(store.organizations) \cup {9}, event_data \in EventData :
          UpsertEvent(org_id, event_data)

SpecEvent == InitSeeded /\ [][NextEvent]_vars

\* create_sequence under every touch list and fault, as run_discovery calls it
\* (no scheduled_date), for a known contact, no contact and an unknown contact id
NextCreate ==
    \/ \E c \in {1, NoId, 9}, numbers \in TouchNumberLists, fault \in 0..2 :
          CreateSequence(1, c, numbers, FALSE, fault)
    \/ \E s \in Ids(store.email_sequences) : CancelRemainingTouches(s)

SpecCreate == InitSeeded /\ [][NextCreate]_vars

\* the life of a touch: created, fetched by a send job, sent, cancelled
NextTouch ==
    \/ Tick
    \/ \E numbers \in {GoodNumbers(n) : n \in 0..3}, dated \in BOOLEAN :
          CreateSequence(1, 1, numbers, dated, 0)
    \/ GetPendingTouches
    \/ \E t \in Ids(store.email_touches) \cup {9}, m \in MessageIds,
          at \in {NoTime} \cup 0..now :
          MarkTouchSent(t, m, at)
    \/ \E s \in Ids(store.email_sequences) \cup {9} : CancelRemainingTouches(s)

SpecTouch == InitSeeded /\ [][NextTouch]_vars

\* sequences created with and without a hook and a snapshot, their touches
\* sent and cancelled
NextSnapshot ==
    \/ \E n \in 1..2, with \in {<<"hook-a", "icp-v1">>, <<NoText, NoText>>} :
          CreateSequenceWith(1, 1, GoodNumbers(n), with[1], with[2])
    \/ \E t \in Ids(store.email_touches) \cup {9} : MarkTouchSent(t, "msg-001", NoTime)
    \/ \E q \in Ids(store.email_sequences) \cup {9} : CancelRemainingTouches(q)

SpecSnapshot == InitSeeded /\ [][NextSnapshot]_vars

\* cancellation among touches that are scheduled, sent and cancelled
NextCancel ==
    \/ \E n \in 0..3 : CreateSequence(1, 1, GoodNumbers(n), FALSE, 0)
    \/ \E t \in Ids(store.email_touches) \cup {9} : MarkTouchSent(t, "msg-001", NoTime)
    \/ \E s \in Ids(store.email_sequences) \cup {9} : CancelRemainingTouches(s)

SpecCancel == InitSeeded /\ [][NextCancel]_vars

\* replies handled while sequences are scheduled
NextReply ==
    \/ \E c \in {1, 2} : CreateSequence(1, c, GoodNumbers(2), TRUE, 0)
    \/ \E contact_email \in {RawA, <<>>},
          classification \in {"UNSUBSCRIBE", "INTERESTED", "UNKNOWN"},
          email \in {EmailA, EmailB, <<>>}, fault \in 0..2 :
          RunReplyHandler(contact_email, classification, email, NoTime, fault)

SpecReply == InitSeeded /\ [][NextReply]_vars

\* sends while addresses are being suppressed
NextSuppress ==
    \/ Tick
    \/ \E e \in {RawA, EmailB}, source \in {"manual", "bounce", "import"} :
          AddSuppression(e, NoText, source)
    \/ \E c \in {1, 2}, n \in 1..2 : CreateSequence(1, c, GoodNumbers(n), TRUE, 0)
    \/ GetPendingTouches
    \/ \E t \in Ids(store.email_touches) : MarkTouchSent(t, "msg-001", NoTime)

SpecSuppress == InitSeeded /\ [][NextSuppress]_vars

\* the suppression list under repeated additions, by hand and by replies
NextSuppression ==
    \/ \E e \in {RawA, EmailB}, reason \in {"spam", NoText},
          source \in {"manual", "bounce", "import"} :
          AddSuppression(e, reason, source)
    \/ \E classification \in {"UNSUBSCRIBE", "INTERESTED"}, email \in {RawC, <<>>},
          fault \in {0, 2} :
          RunReplyHandler(RawA, classification, email, NoTime, fault)

SpecSuppression == InitSeeded /\ [][NextSuppression]_vars

\* discovery runs in concurrent transactions, upserting the same two
\* organizations and the same new contact
NextConcurrent ==
    \E s \in Sessions :
       \/ Begin(s)
       \/ \E domain \in Domains, name \in Names :
             SessionUpsert(s, "org",
                           [domain |-> domain, name |-> name, pipeline_stage |-> Unset,
                            notes |-> IF name = "Acme" THEN "hot" ELSE Unset])
       \/ \E name \in {"Ann", Unset} :
             SessionUpsert(s, "contact",
                           [email |-> UpperC, name |-> name,
                            org_id |-> IF name = Unset THEN 1 ELSE UnsetInt])
       \/ Resume(s)
       \/ Commit(s)
       \/ Rollback(s)

SpecConcurrent == InitSeeded /\ [][NextConcurrent]_vars

\* reply handlers in concurrent transactions, each suppressing the same
\* address as its caller wrote it
NextRace ==
    \E s \in Sessions :
       \/ Begin(s)
       \/ \E email \in {RawA, EmailA} : SuppressInsert(s, email, "unsubscribe_reply")
       \/ SuppressResume(s)
       \/ SuppressReturn(s)
       \/ Commit(s)
       \/ Rollback(s)

SpecRace == InitSeeded /\ [][NextRace]_vars

\* get_db blocks of several upserts, some of which raise, ending in a commit
\* or interrupted by an exception
NextTransaction ==
    \E s \in Sessions :
       \/ Begin(s)
       \/ \E data \in {[domain |-> "expo.com", name |-> "Expo Group",
                          pipeline_stage |-> "scored", notes |-> Unset],
                         [domain |-> "acme.org", name |-> Unset,
                          pipeline_stage |-> "qualified", notes |-> Unset],
                         [domain |-> "new.org", name |-> Unset,
                          pipeline_stage |-> "scored", notes |-> Unset]} :
             BlockUpsert(s, "org", data)
       \/ \E org_id \in {1, 9} :
             BlockUpsert(s, "contact", [email |-> UpperC, name |-> "Ann", org_id |-> org_id])
       \/ Commit(s)
       \/ Rollback(s)

SpecTransaction == InitSeeded /\ [][NextTransaction]_vars

\* replies recorded with every classification and with values that are none:
\* the classifier's default, a lower-case spelling, an empty string, a NULL
Classified == CLASSIFICATIONS \cup {"UNKNOWN", "interested", "", NoText}

NextClassify ==
    \/ \E org_id \in {1, NoId}, classification \in Classified :
          RecordReply(org_id, 1, classification)
    \/ \E classification \in Classified, email \in {EmailA, <<>>} :
          RunReplyHandler(RawA, classification, email, NoTime, 0)

SpecClassify == InitSeeded /\ [][NextClassify]_vars

\* replies that ask to be contacted again later, handled while time passes,
\* and the query for the organizations due; an upsert may write the columns
\* the query reads
RecontactDates == {NoTime, 1}

NextNurture ==
    \/ Tick
    \/ \E classification \in {"NURTURE", "NOT_FIT"}, recontact_date \in RecontactDates,
          fault \in {0, 1} :
          RunReplyHandler(RawA, classification, <<>>, recontact_date, fault)
    \/ \E domain \in {"acme.org", "expo.com"}, date \in {NoTime, 0, 1},
          disqualified \in {"true", "false"} :
          UpsertOrganization([domain |-> domain, name |-> "Org", pipeline_stage |-> Unset,
                              notes |-> Unset, next_outreach_date |-> date,
                              disqualified |-> disqualified])
    \/ GetDueForOutreach

SpecNurture == InitSeeded /\ [][NextNurture]_vars

\* calls and meetings recorded directly and by booking runs, among changes
\* of the stage of the organization they refer to
NextAppend ==
    \/ Tick
    \/ RecordCall(1, 1, FALSE, "SKIPPED")
    \/ \E call_record_id \in Ids(store.call_records) \cup {9} :
          RecordMeeting(1, 1, call_record_id)
    \/ \E granted \in BOOLEAN, confirmed \in BOOLEAN :
          BookingAgent(RawA, granted,
                       [placed |-> granted,
                        call_status |-> IF granted THEN "BOOKED" ELSE "SKIPPED",
                        confirmed |-> confirmed])
    \/ \E fault \in BOOLEAN : BookingPersist(fault)
    \/ UpdateStage(1, "booked")

SpecAppend == InitSeeded /\ [][NextAppend]_vars

\* stages written by update_stage and by upsert, listed ones and others: an
\* unlisted word, a listed word in another case, a NULL
StagesWritten == {"qualified", "booked", "bogus", "Booked", NoText}

NextChecked ==
    \/ Tick
    \/ \E org_id \in {1, 2, 9}, stage \in StagesWritten : UpdateStage(org_id, stage)
    \/ \E domain \in {"acme.org", "expo.com"}, stage \in StagesWritten \cup {Unset} :
          UpsertOrganization([domain |-> domain, name |-> "Org",
                              pipeline_stage |-> stage, notes |-> Unset])

SpecChecked == InitSeeded /\ [][NextChecked]_vars

\* the stage of one organization written over and over, as time passes
NextStage ==
    \/ Tick
    \/ \E org_id \in {1, 9}, stage \in PIPELINE_STAGES \cup {"bogus"} :
          UpdateStage(org_id, stage)

SpecStage == InitSeeded /\ [][NextStage]_vars

\* one organization moved through its stages while discovery runs find it
\* again and upserts rewrite it
KnownLead ==
    [website |-> <<Scheme, "www.", "acme.org">>, name |-> "Acme",
     contacts |-> <<>>, event_type |-> NoText, score |-> 80]

NextPipeline ==
    \/ Tick
    \/ \E stage \in PIPELINE_STAGES : UpdateStage(1, stage)
    \/ \E stage \in {Unset, "discovered"} :
          UpsertOrganization([domain |-> "acme.org", name |-> "Acme",
                              pipeline_stage |-> stage, notes |-> Unset])
    \/ PersistLeads(<<KnownLead>>)

SpecPipeline == InitSeeded /\ [][NextPipeline]_vars

\* events of two organizations, dated around the windows of two days, and the
\* window queries: 2026-03-01, 2026-05-01, 2026-07-01, 2027-01-01, 2027-02-28
\* and an explicit NULL
EventDates == {201, 401, 601, 1201, 1328, NoTime}
Windows == {<<4, 12>>, <<2, 4>>}

NextWindow ==
    \/ Tick
    \/ \E flag \in {"true", "false"} :
          UpsertOrganization([domain |-> "expo.com", name |-> "Expo Group",
                              pipeline_stage |-> Unset, notes |-> Unset,
                              disqualified |-> flag])
    \/ \E name \in {"Expo", "Summit"}, date \in EventDates :
          UpsertEvent(1, [event_name |-> name, event_type |-> Unset,
                          event_date |-> date])
    \/ \E org_id \in Ids(store.organizations) \ {1}, date \in {201, 601} :
          UpsertEvent(org_id, [event_name |-> "Expo", event_type |-> Unset,
                               event_date |-> date])
    \/ \E w \in Windows : GetUpcomingEvents(w[1], w[2])
    \/ \E w \in Windows : GetInEventWindow(w[1], w[2])

SpecWindow == InitSeeded /\ [][NextWindow]_vars

\* whole discovery runs, with the store failing in any of their blocks
NewLead ==
    [website |-> <<Scheme, "www.", "expo.com", "/about">>, name |-> "Expo Group",
     contacts |-> <<UpperC>>, event_type |-> "conference", score |-> 80]

RunLeadLists ==
    {<<>>, <<KnownLead>>, <<NewLead>>, <<KnownLead, NewLead>>,
     <<[NewLead EXCEPT !.contacts = <<NoEmail>>]>>}

\* discovery runs whose scoring stage supplies scores within and outside
\* 0..100, and none, for a known organization and for a new one
Scores == {NoScore, -5, 0, 100, 101}

ScoredLeads ==
    {[KnownLead EXCEPT !.score = score] : score \in Scores}
    \cup {[NewLead EXCEPT !.score = score, !.contacts = <<>>, !.event_type = NoText] :
             score \in Scores}

ScoredLeadLists == UNION {[1..n -> ScoredLeads] : n \in 1..MaxLeads}

NextScore ==
    \/ Tick
    \/ \E qualified \in ScoredLeadLists : PersistLeads(qualified)

SpecScore == InitSeeded /\ [][NextScore]_vars

RunSequences ==
    [lead_name : {"ACME", "Nobody"}, contacts : {<<RawA>>, <<>>},
     numbers : {GoodNumbers(2), <<1, NoNumber>>}]

RunSequenceLists == {<<>>} \cup {<<seq>> : seq \in RunSequences}

NextRun ==
    \/ \E fault \in 0..3 : DiscoveryPreflight(fault)
    \/ \E qualified \in RunLeadLists : DiscoveryStage1(qualified)
    \/ \E fault \in BOOLEAN : DiscoveryPersist1(fault)
    \/ \E sequences \in RunSequenceLists, fault \in BOOLEAN :
          DiscoveryStage2(sequences, fault)
    \/ DiscoveryReturn

SpecRun == InitSeeded /\ [][NextRun]_vars

\* run_discovery run again and again with the same lead and the same campaign
\* for it, as time passes
SameCampaign ==
    <<[lead_name |-> "ACME", contacts |-> <<RawA>>, numbers |-> GoodNumbers(2)]>>

NextRerun ==
    \/ Tick
    \/ \E fault \in {0, 1} : DiscoveryPreflight(fault)
    \/ DiscoveryStage1(<<KnownLead>>)
    \/ \E fault \in BOOLEAN : DiscoveryPersist1(fault)
    \/ \E fault \in BOOLEAN : DiscoveryStage2(SameCampaign, fault)
    \/ DiscoveryReturn

SpecRerun == InitSeeded /\ [][NextRerun]_vars

\* the send job's query among touches with dates, created directly, and the
\* touches a discovery run persists, some of them sent or cancelled
NextPending ==
    \/ Tick
    \/ CreateSequence(1, 1, GoodNumbers(2), TRUE, 0)
    \/ DiscoveryPreflight(0)
    \/ DiscoveryStage1(<<KnownLead>>)
    \/ DiscoveryPersist1(FALSE)
    \/ DiscoveryStage2(SameCampaign, FALSE)
    \/ DiscoveryReturn
    \/ GetPendingTouches
    \/ \E t \in Ids(store.email_touches) : MarkTouchSent(t, "msg-001", NoTime)
    \/ \E q \in Ids(store.email_sequences) : CancelRemainingTouches(q)

SpecPending == InitSeeded /\ [][NextPending]_vars

\* discovery runs over batches of two leads and two sequences: a lead without
\* a parseable domain, a lead whose contact has no email, a sequence of an
\* unknown lead, a sequence with a touch without a number
NoDomainLead == [NewLead EXCEPT !.website = <<"www.">>]
NoEmailLead == [NewLead EXCEPT !.contacts = <<NoEmail>>]

BatchLeadLists ==
    {<<KnownLead, NewLead>>, <<KnownLead, NoEmailLead>>, <<NoEmailLead, KnownLead>>,
     <<NoDomainLead, KnownLead>>, <<KnownLead, NoDomainLead>>}

BatchSequences ==
    {[lead_name |-> "ACME", contacts |-> <<RawA>>, numbers |-> GoodNumbers(2)],
     [lead_name |-> "ACME", contacts |-> <<>>, numbers |-> <<1, NoNumber>>],
     [lead_name |-> "Nobody", contacts |-> <<RawA>>, numbers |-> GoodNumbers(2)]}

BatchSequenceLists == [1..2 -> BatchSequences]

NextBatch ==
    \/ DiscoveryPreflight(0)
    \/ \E qualified \in BatchLeadLists : DiscoveryStage1(qualified)
    \/ \E fault \in BOOLEAN : DiscoveryPersist1(fault)
    \/ \E sequences \in BatchSequenceLists, fault \in BOOLEAN :
          DiscoveryStage2(sequences, fault)
    \/ DiscoveryReturn

SpecBatch == InitSeeded /\ [][NextBatch]_vars

\* a discovery run, a reply and a booking, each with a persistence block that
\* the store may fail
NextSurface ==
    \/ DiscoveryPreflight(0)
    \/ DiscoveryStage1(<<KnownLead>>)
    \/ \E fault \in BOOLEAN : DiscoveryPersist1(fault)
    \/ \E sequences \in {<<>>, <<[lead_name |-> "ACME", contacts |-> <<RawA>>,
                                   numbers |-> GoodNumbers(2)]>>}, fault \in BOOLEAN :
          DiscoveryStage2(sequences, fault)
    \/ DiscoveryReturn
    \/ \E fault \in {0, 1} : RunReplyHandler(RawA, "INTERESTED", <<>>, NoTime, fault)
    \/ BookingAgent(RawA, FALSE, [placed |-> FALSE, call_status |-> "SKIPPED"])
    \/ \E fault \in BOOLEAN : BookingPersist(fault)

SpecSurface == InitSeeded /\ [][NextSurface]_vars

\* booking runs, direct call records and replies of one lead
NextCall ==
    \/ Tick
    \/ \E granted \in BOOLEAN, st \in {"SKIPPED", "BOOKED"} : RecordCall(1, 1, granted, st)
    \/ \E granted \in BOOLEAN,
          outcome \in {[placed |-> pl, call_status |-> st] :
                          pl \in BOOLEAN, st \in {"SKIPPED", "BOOKED", "NO_ANSWER"}} :
          BookingAgent(RawA, granted, outcome)
    \/ \E fault \in BOOLEAN : BookingPersist(fault)
    \/ RunReplyHandler(RawA, "INTERESTED", <<>>, NoTime, 0)

SpecCall == InitSeeded /\ [][NextCall]_vars

\* calls of the tools in every environment, with requests that succeed or fail
NextTools ==
    \/ \E f \in Tools \ ToolsOf.calendar, env \in Envs, request \in {"ok", "fails"} :
          ToolCall(f, env, NoText, request)
    \/ \E f \in ToolsOf.calendar, env \in Envs, calendar_id \in {NoText, "cal-1"},
          request \in {"ok", "fails"} :
          ToolCall(f, env, calendar_id, request)

SpecTools == InitSeeded /\ [][NextTools]_vars

----------------------------------------------------------------------------
(* Properties of the upserts *)

\* this step is a call of `op`: every action but Tick records itself in `last`,
\* and Tick changes `now` alone
Step(op) == last'.op = op /\ now' = now

OrgsOf(db, domain) == {o \in db.organizations : o.domain = domain}

ContactsOf(db, email) == {c \in db.contacts : NormEmail(c.email) = NormEmail(email)}

\* C11: whatever transactions upsert concurrently, the committed store never
\* holds two organizations of one domain or two contacts of one email, and no
\* update is lost: when a transaction commits, the row of each key it upserted
\* has its values in the fields it supplied and, in every other field, the
\* values committed before it, under the id the row had.
ConcurrentUpsertSafe ==
    /\ [](\A o, p \in store.organizations : o.domain = p.domain => o = p)
    /\ [](\A c, d \in store.contacts : c.email = d.email => c = d)
    /\ [][Step("commit") =>
            LET mine == sessions[last'.args[1]]
            IN /\ \A p \in mine.orgs :
                     \E q \in store'.organizations :
                        /\ q.domain = p.domain
                        /\ \A o \in OrgsOf(store, p.domain) : q.id = o.id
                        /\ \A f \in {"name", "pipeline_stage", "notes"} :
                              IF <<p.domain, f>> \in mine.org_fields
                              THEN q[f] = p[f]
                              ELSE \A o \in OrgsOf(store, p.domain) : q[f] = o[f]
               /\ \A p \in mine.contacts :
                     \E q \in store'.contacts :
                        /\ q.email = p.email
                        /\ \A c \in ContactsOf(store, p.email) : q.id = c.id
                        /\ \A f \in {"org_id", "name"} :
                              IF <<p.email, f>> \in mine.contact_fields
                              THEN q[f] = p[f]
                              ELSE \A c \in ContactsOf(store, p.email) : q[f] = c[f]]_vars

\* a transaction that had to wait for another one's upsert of its key has
\* committed after it: the organization has the name the one gave and the
\* notes the other gave, the new organization and the new contact have one row
ConcurrentUpsertSafeWitness ==
    /\ last.op = "commit"
    /\ last.args[2] = "waited"
    /\ \E o \in store.organizations :
          o.domain = "acme.org" /\ o.name = "Acme Events" /\ o.notes = "hot"
    /\ Cardinality(OrgsOf(store, "expo.com")) = 1
    /\ Cardinality(ContactsOf(store, EmailC)) = 1

\* C12: however often one domain is upserted, with whatever field values, the
\* store holds exactly one Organization row for it, every call returns that
\* row under the id of the first, its supplied fields are those of the last
\* call, and its domain is the one given.
OrgDedup ==
    /\ [](\A o, p \in store.organizations : o.domain = p.domain => o = p)
    /\ [][(Step("org_upsert") /\ last'.exc = "none") =>
            LET data == last'.args[1]
            IN /\ Cardinality(OrgsOf(store', data.domain)) = 1
               /\ \A p \in OrgsOf(store, data.domain) : last'.ret = <<p.id>>
               /\ \A o \in OrgsOf(store', data.domain) :
                     /\ last'.ret = <<o.id>>
                     /\ data.name # Unset => o.name = data.name
                     /\ data.pipeline_stage # Unset =>
                           o.pipeline_stage = data.pipeline_stage
                     /\ data.notes # Unset => o.notes = data.notes]_vars

\* the seeded organization after at least two more upserts: its name has been
\* replaced, and the last call gave a stage but no notes, which an earlier one set
OrgDedupWitness ==
    /\ last.op = "org_upsert"
    /\ last.exc = "none"
    /\ last.args[1].domain = "acme.org"
    /\ last.args[1].notes = Unset
    /\ last.args[1].pipeline_stage = "enriched"
    /\ last.ret = <<1>>
    /\ [id |-> 1, domain |-> "acme.org", name |-> "Acme Events",
        pipeline_stage |-> "enriched", notes |-> "hot", icp_score |-> 70,
        next_outreach_date |-> NoTime, disqualified |-> FALSE, updated_at |-> 0]
          \in store.organizations
    /\ Cardinality(store.organizations) = 2

\* C13: a contact is identified by its email lower-cased and trimmed: the
\* stored email is in that form, emails that differ only in case or surrounding
\* whitespace share one row, an upsert returns that row, and get_by_email
\* under any such spelling returns it.
ContactIdentity ==
    /\ [](\A c \in store.contacts : c.email = NormEmail(c.email))
    /\ [](\A c, d \in store.contacts : NormEmail(c.email) = NormEmail(d.email) => c = d)
    /\ [][(Step("contact_upsert") /\ last'.exc = "none") =>
            /\ Ids(ContactsOf(store', last'.args[1].email)) = {last'.ret[1]}
            /\ \A c \in ContactsOf(store, last'.args[1].email) : last'.ret = <<c.id>>]_vars
    /\ [][Step("get_by_email") =>
            /\ \A c \in ContactsOf(store, last'.args[1]) : last'.ret = <<c.id>>
            /\ ContactsOf(store, last'.args[1]) = {} => last'.ret = <<>>]_vars

\* a contact written under capitals is found under capitals after a space;
\* no third spelling has made a second row
ContactIdentityWitness ==
    /\ last.op = "get_by_email"
    /\ last.args[1] = RawC
    /\ last.ret = <<3>>
    /\ [id |-> 3, email |-> EmailC, org_id |-> 1, name |-> "Ann"] \in store.contacts
    /\ Cardinality(store.contacts) = 3

EventsOf(db, org_id, event_name) ==
    {e \in db.events : e.org_id = org_id /\ e.event_name = event_name}

\* C15: an event is identified by (org_id, event_name): an upsert under a pair
\* that has a row leaves that one row, holding the fields of this call; under
\* a pair that has none it adds a row, whatever rows carry the same name under
\* another organization or another name under the same organization; no other
\* row changes.
EventDedup ==
    /\ [](\A e, f \in store.events :
             (e.org_id = f.org_id /\ e.event_name = f.event_name) => e = f)
    /\ [][(Step("event_upsert") /\ last'.exc = "none") =>
            LET org_id == last'.args[1]
                event_data == last'.args[2]
                hit == EventsOf(store, org_id, event_data.event_name)
                now_there == EventsOf(store', org_id, event_data.event_name)
            IN /\ Cardinality(now_there) = 1
               /\ store'.events \ now_there = store.events \ hit
               /\ Cardinality(store'.events) =
                     Cardinality(store.events) + (IF hit = {} THEN 1 ELSE 0)
               /\ \A e \in hit : last'.ret = <<e.id>>
               /\ \A e \in now_there :
                     /\ last'.ret = <<e.id>>
                     /\ event_data.event_type # Unset =>
                           e.event_type = event_data.event_type
                     /\ event_data.event_date # UnsetInt =>
                           e.event_date = event_data.event_date]_vars

\* a second upsert of (1, Expo), after (1, Summit) and (2, Expo) were added:
\* three rows, and the call returned the oldest of them with its new date and
\* the type an earlier call gave it
EventDedupWitness ==
    /\ last.op = "event_upsert"
    /\ last.args = <<1, [event_name |-> "Expo", event_type |-> Unset,
                          event_date |-> 1]>>
    /\ last.ret = <<1>>
    /\ Cardinality(store.events) = 3
    /\ [id |-> 1, org_id |-> 1, event_name |-> "Expo", event_type |-> "conference",
        event_date |-> 1] \in store.events
    /\ EventsOf(store, 1, "Summit") # {}
    /\ EventsOf(store, 2, "Expo") # {}

\* C14: an upsert changes one row at most, the one with the identity given.
\* Of a row that exists it changes only the fields the call supplies: its id,
\* its identity and every field the call leaves out are as before.  An upsert
\* that raises changes nothing.
UpsertFrame ==
    /\ [][Step("org_upsert") =>
            LET data == last'.args[1]
            IN /\ store' = [store EXCEPT !.organizations = store'.organizations]
               /\ \A o \in store.organizations :
                     IF o.domain = data.domain /\ last'.exc = "none"
                     THEN \E n \in store'.organizations :
                             /\ n.id = o.id
                             /\ n.domain = o.domain
                             /\ n.updated_at = o.updated_at
                             /\ data.name = Unset => n.name = o.name
                             /\ data.pipeline_stage = Unset =>
                                   n.pipeline_stage = o.pipeline_stage
                             /\ data.notes = Unset => n.notes = o.notes
                             /\ Field(data, "icp_score", UnsetInt) = UnsetInt =>
                                   n.icp_score = o.icp_score
                             /\ Field(data, "next_outreach_date", UnsetInt) = UnsetInt =>
                                   n.next_outreach_date = o.next_outreach_date
                             /\ Field(data, "disqualified", Unset) = Unset =>
                                   n.disqualified = o.disqualified
                     ELSE o \in store'.organizations]_vars
    /\ [][Step("contact_upsert") =>
            LET data == last'.args[1]
            IN /\ store' = [store EXCEPT !.contacts = store'.contacts]
               /\ \A c \in store.contacts :
                     IF last'.exc = "none" /\ c.email = NormEmail(data.email)
                     THEN \E n \in store'.contacts :
                             /\ n.id = c.id
                             /\ n.email = c.email
                             /\ data.org_id = UnsetInt => n.org_id = c.org_id
                             /\ data.name = Unset => n.name = c.name
                     ELSE c \in store'.contacts]_vars
    /\ [][Step("event_upsert") =>
            LET org_id == last'.args[1]
                event_data == last'.args[2]
            IN /\ store' = [store EXCEPT !.events = store'.events]
               /\ \A e \in store.events :
                     IF /\ last'.exc = "none"
                        /\ e.org_id = org_id
                        /\ e.event_name = event_data.event_name
                     THEN \E n \in store'.events :
                             /\ n.id = e.id
                             /\ n.org_id = e.org_id
                             /\ n.event_name = e.event_name
                             /\ event_data.event_type = Unset =>
                                   n.event_type = e.event_type
                             /\ event_data.event_date = UnsetInt =>
                                   n.event_date = e.event_date
                     ELSE e \in store'.events]_vars

\* a contact upserted again, under another spelling and without org_id, keeps
\* its organization, beside an organization and an event that were upserted too
UpsertFrameWitness ==
    /\ last.op = "contact_upsert"
    /\ last.args = <<[email |-> RawA, org_id |-> UnsetInt, name |-> "Ann"]>>
    /\ last.ret = <<1>>
    /\ [id |-> 1, email |-> EmailA, org_id |-> 1, name |-> "Ann"] \in store.contacts
    /\ [id |-> 1, domain |-> "acme.org", name |-> "Acme Events",
        pipeline_stage |-> "scored", notes |-> "hot", icp_score |-> 70,
        next_outreach_date |-> NoTime, disqualified |-> FALSE, updated_at |-> 0]
          \in store.organizations
    /\ [id |-> 1, org_id |-> 1, event_name |-> "Expo", event_type |-> "conference",
        event_date |-> 1] \in store.events

\* the identities that are empty or that no domain, email or name can be
EmptyDomains == {"", Scheme}
EmptyEmails == {<<>>, <<" ">>, NoEmail}
EmptyNames == {"", Unset}

\* C16: an upsert whose domain, email or event_name is empty or unparseable
\* raises and writes nothing, and no row with such an identity is ever stored,
\* whether the upsert is called directly or by run_discovery for a lead or for
\* a contact of a lead.
InvalidIdentityRejected ==
    /\ [](/\ \A o \in store.organizations : o.domain \notin EmptyDomains
          /\ \A c \in store.contacts : c.email \notin EmptyEmails
          /\ \A e \in store.events : e.event_name \notin EmptyNames)
    /\ [][(\/ Step("org_upsert") /\ last'.args[1].domain \in EmptyDomains
           \/ Step("contact_upsert") /\ last'.args[1].email \in EmptyEmails
           \/ Step("event_upsert") /\ last'.args[2].event_name \in EmptyNames)
             => (last'.exc # "none" /\ store' = store)]_vars

----------------------------------------------------------------------------
(* Properties of the touch scheduler *)

TouchesOf(db, sequence_id) == {x \in db.email_touches : x.sequence_id = sequence_id}

ScheduledOf(db, sequence_id) == {x \in TouchesOf(db, sequence_id) : x.status = "scheduled"}

\* C6: mark_touch_sent moves a touch to sent only from scheduled: no touch
\* that is cancelled, bounced or failed ever becomes sent.
SentOnlyFromScheduled ==
    [][\A x \in store.email_touches, y \in store'.email_touches :
          (x.id = y.id /\ y.status = "sent" /\ x.status # "sent")
             => x.status = "scheduled"]_vars

\* C7: mark_touch_sent on a touch already sent with the same message id
\* returns the existing row, without error, and leaves the row as first written.
MarkSentIdempotent ==
    [][\A x \in store.email_touches :
          (/\ Step("mark_touch_sent")
           /\ last'.args[1] = x.id
           /\ last'.args[2] = x.message_id
           /\ x.status = "sent")
             => (last'.ret = <<x.id>> /\ last'.exc = "none" /\ x \in store'.email_touches)]_vars

\* C8: cancel_remaining_touches(sequence_id) cancels exactly the scheduled
\* touches of that sequence, changes no other touch and no other table, returns
\* the number it cancelled, and a later call for the same sequence returns 0:
\* none of its touches is scheduled afterwards, no touch is ever scheduled
\* again, and no touch is ever added to an existing sequence.
CancelRemainingExact ==
    /\ [][\A s \in Ids(store.email_sequences) \cup {9} :
            (Step("cancel_remaining_touches") /\ last'.args = <<s>>) =>
              /\ store'.email_touches =
                    {IF x \in ScheduledOf(store, s)
                        THEN [x EXCEPT !.status = "cancelled"] ELSE x
                     : x \in store.email_touches}
              /\ store' = [store EXCEPT !.email_touches = store'.email_touches]
              /\ last'.ret = <<Cardinality(ScheduledOf(store, s))>>
              /\ ScheduledOf(store', s) = {}
              /\ (last.op = "cancel_remaining_touches" /\ last.args = <<s>>)
                    => last'.ret = <<0>>]_vars
    /\ [][\A s \in Ids(store.email_sequences) :
            ScheduledOf(store', s) \subseteq ScheduledOf(store, s)]_vars

\* a call that cancelled two touches of a sequence whose first touch was sent,
\* while another sequence keeps a scheduled touch
CancelRemainingWitness ==
    /\ last.op = "cancel_remaining_touches"
    /\ last.ret = <<2>>
    /\ \E x \in TouchesOf(store, last.args[1]) : x.status = "sent"
    /\ \E x \in store.email_touches :
          x.sequence_id # last.args[1] /\ x.status = "scheduled"

\* C9: in every committed state every touch belongs to an existing sequence and
\* every sequence has all the touches it was created with; a create_sequence
\* that raises commits nothing.
SequenceAtomic ==
    /\ [](\A x \in store.email_touches : x.sequence_id \in Ids(store.email_sequences))
    /\ [](\A s \in store.email_sequences :
             Cardinality(TouchesOf(store, s.id)) = s.supplied)
    /\ [][(last'.op = "create_sequence" /\ last'.exc # "none") => store' = store]_vars

\* a create_sequence that failed after its sequence row was flushed and a touch
\* was pending, in a store that holds a sequence committed with its two touches
SequenceAtomicWitness ==
    /\ last.op = "create_sequence"
    /\ last.exc = "py"
    /\ Len(last.args[2]) > 1
    /\ \E s \in store.email_sequences :
          s.supplied = 2 /\ Cardinality(TouchesOf(store, s.id)) = 2

\* C10: every EmailSequence owns between 1 and 3 touches, each numbered 1..3.
SequenceOwnsOneToThree ==
    \A s \in store.email_sequences :
       /\ Cardinality(TouchesOf(store, s.id)) \in 1..3
       /\ \A x \in TouchesOf(store, s.id) : x.touch_number \in 1..3

----------------------------------------------------------------------------
(* Properties of suppression and replies *)

TouchesTo(db, contact_id) == {x \in db.email_touches : x.contact_id = contact_id}

\* C3: once an email is in the suppression list, no touch addressed to the
\* contact with that email is created, returned as pending, or moved to sent.
SuppressedReceiveNothing ==
    [][\A c \in store.contacts : is_suppressed(store, c.email) =>
          /\ \A y \in TouchesTo(store', c.id) : y.id \in Ids(store.email_touches)
          /\ Step("get_pending_touches") =>
                \A i \in DOMAIN last'.ret :
                   last'.ret[i] \notin Ids(TouchesTo(store, c.id))
          /\ \A x \in TouchesTo(store, c.id), y \in TouchesTo(store', c.id) :
                (x.id = y.id /\ y.status = "sent") => x.status = "sent"]_vars

\* C4: a committed UNSUBSCRIBE reply for a known contact email leaves that
\* email suppressed and none of the contact's touches scheduled.
UnsubscribeCompound ==
    [][(/\ Step("run_reply_handler")
        /\ last'.exc = "none"
        /\ last'.args[2] = "UNSUBSCRIBE"
        /\ get_by_email(store, last'.args[1]).id # NoId)
          => LET contact == get_by_email(store, last'.args[1])
             IN /\ is_suppressed(store', contact.email)
                /\ \A x \in TouchesTo(store', contact.id) : x.status # "scheduled"]_vars

\* C5: when the suppression insert of an UNSUBSCRIBE reply fails, or anything
\* else in the block raises, nothing of the block is committed: no InboundReply
\* row, no change to any touch; and whenever the block commits an UNSUBSCRIBE
\* reply for which it attempted the suppression, the address is suppressed.
ReplyRollback ==
    /\ [][(Step("run_reply_handler") /\ last'.exc # "none") => store' = store]_vars
    /\ [][(/\ Step("run_reply_handler")
           /\ last'.args[2] = "UNSUBSCRIBE"
           /\ last'.args[3] # <<>>
           /\ store'.inbound_replies # store.inbound_replies)
             => is_suppressed(store', last'.args[3])]_vars

\* the suppression insert of an UNSUBSCRIBE reply has just failed, while the
\* contact has scheduled touches and its address is not suppressed
ReplyRollbackWitness ==
    /\ last.op = "run_reply_handler"
    /\ last.exc = "db"
    /\ last.args[2] = "UNSUBSCRIBE"
    /\ last.args[3] = EmailA
    /\ last.args[4] = 2
    /\ ~is_suppressed(store, EmailA)
    /\ \E x \in TouchesTo(store, 1) : x.status = "scheduled"

SuppressionOf(db, email) == {x \in db.suppression_list : x.email = NormEmail(email)}

\* C17: add_suppression with a source of the enum never raises; for an email
\* that has an entry it returns the id of that entry and leaves the entry, its
\* reason and its source as the first call wrote them; for an email that has
\* none it stores the entry given and returns its id.
SuppressionFirstWriterWins ==
    [][(Step("add_suppression") /\ last'.args[3] \in SUPPRESSION_SOURCES) =>
          LET email == last'.args[1]
          IN /\ last'.exc = "none"
             /\ \A x \in SuppressionOf(store, email) :
                   last'.ret = <<x.id>> /\ store' = store
             /\ SuppressionOf(store, email) = {} =>
                   \E x \in store'.suppression_list :
                      /\ last'.ret = <<x.id>>
                      /\ x.email = NormEmail(email)
                      /\ x.reason = last'.args[2]
                      /\ x.source = last'.args[3]
                      /\ store'.suppression_list = store.suppression_list \cup {x}]_vars

\* a second call, with another reason and another source, has returned the
\* entry the first call stored
SuppressionFirstWriterWinsWitness ==
    /\ last.op = "add_suppression"
    /\ last.args = <<RawA, "spam", "bounce">>
    /\ last.exc = "none"
    /\ last.ret = <<1>>
    /\ [id |-> 1, email |-> EmailA, reason |-> NoText, source |-> "manual"]
          \in store.suppression_list

SomeEmails == {EmailA, RawA, EmailB, EmailC, RawC, UpperC}

\* C18: no email is suppressed at the start; an email becomes suppressed
\* exactly by a committed add_suppression, by hand or by an unsubscribe reply,
\* of an email equal to it after lower-casing and trimming; once suppressed
\* it stays suppressed.
SuppressedIffAdded ==
    /\ [](last.op = "none" => \A e \in SomeEmails : ~is_suppressed(store, e))
    /\ [][\A e \in SomeEmails :
            is_suppressed(store', e) <=>
               \/ is_suppressed(store, e)
               \/ /\ Step("add_suppression")
                  /\ last'.exc = "none"
                  /\ NormEmail(last'.args[1]) = NormEmail(e)
               \/ /\ Step("run_reply_handler")
                  /\ last'.exc = "none"
                  /\ last'.args[2] = "UNSUBSCRIBE"
                  /\ last'.args[3] # <<>>
                  /\ NormEmail(last'.args[3]) = NormEmail(e)]_vars

\* after additions in capitals, by hand and by a reply, and a later reply, the
\* emails are suppressed under every spelling, and an email never added is not
SuppressedIffAddedWitness ==
    /\ last.op = "run_reply_handler"
    /\ last.args[2] = "INTERESTED"
    /\ is_suppressed(store, EmailA) /\ is_suppressed(store, RawA)
    /\ is_suppressed(store, UpperC) /\ is_suppressed(store, EmailC)
    /\ ~is_suppressed(store, EmailB)

\* C19: add_suppression with a source outside the enum raises and stores
\* nothing, for an email that has an entry as for one that has none.
InvalidSourceRejected ==
    [][(Step("add_suppression") /\ last'.args[3] \notin SUPPRESSION_SOURCES) =>
          (last'.exc # "none" /\ last'.ret = <<>> /\ store' = store)]_vars

\* a call with an unknown source has raised for an email that was suppressed
\* already, and one has raised for an email that is not
InvalidSourceRejectedWitness ==
    /\ last.op = "add_suppression"
    /\ last.args[3] = "import"
    /\ last.exc = "db"
    /\ is_suppressed(store, RawA)
    /\ ~is_suppressed(store, EmailB)

----------------------------------------------------------------------------
(* Properties of the window queries *)

\* C22: get_upcoming_events(months_min, months_max) returns exactly the events
\* whose event_date lies between today + months_min and today + months_max,
\* both included, each once, dates ascending; an event without a date is
\* never returned.
WindowExact ==
    [][Step("get_upcoming_events") =>
          LET ret == last'.ret
              lo == AddMonths(Today(now), last'.args[1])
              hi == AddMonths(Today(now), last'.args[2])
              dated == {e \in store.events : e.event_date # NoTime}
              DateOf(id) == (CHOOSE e \in store.events : e.id = id).event_date
          IN /\ {ret[i] : i \in DOMAIN ret} =
                   {e.id : e \in {e \in dated : lo <= e.event_date /\ e.event_date <= hi}}
             /\ \A i, j \in DOMAIN ret : i # j => ret[i] # ret[j]
             /\ \A i, j \in DOMAIN ret : i < j => DateOf(ret[i]) <= DateOf(ret[j])]_vars

\* on 2026-01-01 the events of 2026-05-01 and 2027-01-01 are returned, in that
\* order, and the event of 2026-03-01 is not
WindowExactWitness ==
    /\ last.op = "get_upcoming_events"
    /\ last.args = <<4, 12>>
    /\ now = 0
    /\ Len(last.ret) = 2
    /\ \E a, b, c \in store.events :
          /\ a.event_date = 401 /\ b.event_date = 1201 /\ c.event_date = 201
          /\ last.ret = <<a.id, b.id>>

\* C23: get_in_event_window returns each organization that is not disqualified
\* and has at least one event in the window exactly once, and returns no
\* organization that is disqualified or has no event in the window.
WindowOrgsOnce ==
    [][Step("get_in_event_window") =>
          LET ret == last'.ret
              lo == AddMonths(Today(now), last'.args[1])
              hi == AddMonths(Today(now), last'.args[2])
              HasEvent(o) == \E e \in store.events :
                                /\ e.org_id = o.id
                                /\ e.event_date # NoTime
                                /\ lo <= e.event_date /\ e.event_date <= hi
          IN /\ {ret[i] : i \in DOMAIN ret} =
                   {o.id : o \in {o \in store.organizations :
                                     ~o.disqualified /\ HasEvent(o)}}
             /\ \A i, j \in DOMAIN ret : i # j => ret[i] # ret[j]]_vars

\* an organization with two events in the window is returned once, beside a
\* disqualified organization with an event in the window, which is not
WindowOrgsOnceWitness ==
    /\ last.op = "get_in_event_window"
    /\ last.args = <<4, 12>>
    /\ now = 0
    /\ last.ret = <<1>>
    /\ \E a, b, c \in store.events :
          /\ a.org_id = 1 /\ a.event_date = 401
          /\ b.org_id = 1 /\ b.event_date = 1201
          /\ c.org_id = 2 /\ c.event_date = 601
    /\ \E o \in store.organizations : o.id = 2 /\ o.disqualified

----------------------------------------------------------------------------
(* Properties of the pipeline stages *)

\* C20: update_stage(org_id, new_stage) applies new_stage only when it is a
\* legal successor of the organization's stage; any other new_stage raises
\* and leaves the stored stage as it was.
TransitionChecked ==
    [][LET Chain == <<"discovered", "enriched", "scored", "qualified", "in_sequence",
                      "touch_1_sent", "touch_2_sent", "touch_3_sent",
                      "replied_interested", "call_permission_sent",
                      "call_permission_granted", "call_attempted", "booked",
                      "meeting_held", "became_client">>
           Terminal == {"rejected", "became_client", "closed_lost", "unsubscribed"}
           Legal(from, to) ==
               \/ \E i \in 1..(Len(Chain) - 1) : from = Chain[i] /\ to = Chain[i + 1]
               \/ from = "scored" /\ to = "rejected"
               \/ from = "call_attempted" /\ to \in {"nurture", "closed_lost"}
               \/ from = "nurture" /\ to = "in_sequence"
               \/ from \notin Terminal /\ to = "unsubscribed"
       IN Step("update_stage") =>
             \A o \in store.organizations :
                (o.id = last'.args[1] /\ ~Legal(o.pipeline_stage, last'.args[2])) =>
                   (last'.exc # "none" /\ o \in store'.organizations)]_vars

\* C21: whatever update_stage, upsert and discovery runs are made, the stage
\* of an organization never moves back in the stage order, except from nurture
\* to in_sequence, and never leaves rejected, became_client, closed_lost or
\* unsubscribed.
StageForwardOnly ==
    [][LET Chain == <<"discovered", "enriched", "scored", "qualified", "in_sequence",
                      "touch_1_sent", "touch_2_sent", "touch_3_sent",
                      "replied_interested", "call_permission_sent",
                      "call_permission_granted", "call_attempted", "booked",
                      "meeting_held", "became_client">>
           Terminal == {"rejected", "became_client", "closed_lost", "unsubscribed"}
           Rank(stage) ==
               IF stage = "rejected" THEN 4
               ELSE IF stage \in {"nurture", "closed_lost"} THEN 13
               ELSE IF stage = "unsubscribed" THEN Len(Chain) + 1
               ELSE CHOOSE i \in 1..Len(Chain) : Chain[i] = stage
           Forward(from, to) ==
               \/ Rank(from) <= Rank(to)
               \/ from = "nurture" /\ to = "in_sequence"
       IN \A o \in store.organizations : \A n \in store'.organizations :
             n.id = o.id =>
                /\ Forward(o.pipeline_stage, n.pipeline_stage)
                /\ o.pipeline_stage \in Terminal => n.pipeline_stage = o.pipeline_stage]_vars

----------------------------------------------------------------------------
(* Properties of the classification of replies *)

\* C27: a reply whose classification is a value other than INTERESTED,
\* NURTURE, NOT_FIT and UNSUBSCRIBE is rejected and no row is stored for it,
\* whether record_reply is called directly or by run_reply_handler; the
\* classification of a stored reply, when it has one, is one of the four.
ClassificationChecked ==
    /\ [][LET Rejected(classification) ==
                  classification \notin CLASSIFICATIONS \cup {NoText} =>
                     /\ last'.exc # "none"
                     /\ store' = store
          IN /\ Step("record_reply") => Rejected(last'.args[3])
             /\ Step("run_reply_handler") => Rejected(last'.args[2])]_vars
    /\ [](\A r \in store.inbound_replies :
             r.classification # NoText => r.classification \in CLASSIFICATIONS)

\* the classifier's default UNKNOWN has been rejected, after a NURTURE reply
\* was stored
ClassificationCheckedWitness ==
    /\ last.op = "run_reply_handler"
    /\ last.args[2] = "UNKNOWN"
    /\ last.exc = "db"
    /\ \E r \in store.inbound_replies : r.classification = "NURTURE"
    /\ Cardinality(store.inbound_replies) = 1

----------------------------------------------------------------------------
(* Properties of get_db *)

\* C26: a get_db block that ends normally commits every row it wrote, and
\* every session sees them from then on; a block in which an exception is
\* raised commits none, the exception reaches the caller, and no session ever
\* sees its rows; until a block commits, no other session sees its rows.
BlockAtomic ==
    [][LET s == last'.args[1]
           others == Sessions \ {s}
           ViewAfter(u) ==
               [store' EXCEPT !.organizations = Overlay(@, sessions'[u].orgs),
                              !.contacts = Overlay(@, sessions'[u].contacts)]
           SameStore == store' = store /\ \A u \in others : ViewAfter(u) = View(u)
       IN /\ Step("commit") =>
                /\ store'.organizations = Overlay(store.organizations, sessions[s].orgs)
                /\ store'.contacts = Overlay(store.contacts, sessions[s].contacts)
                /\ \A u \in Sessions :
                      /\ \A o \in sessions[s].orgs :
                            o \in ViewAfter(u).organizations \/ o.id \in Ids(sessions'[u].orgs)
                      /\ \A c \in sessions[s].contacts :
                            c \in ViewAfter(u).contacts \/ c.id \in Ids(sessions'[u].contacts)
          /\ Step("rollback") =>
                /\ SameStore
                /\ sessions'[s] = Closed
                /\ last'.exc # "none"
          /\ Step("session_upsert") =>
                /\ SameStore
                /\ last'.exc # "none" => sessions'[s] = Closed
          /\ Step("begin") => ViewAfter(s) = store']_vars

\* a block that wrote an organization and a contact has committed, and both
\* rows are stored
BlockAtomicWitness ==
    /\ last.op = "commit"
    /\ \E o \in store.organizations : o.domain = "expo.com"
    /\ \E c \in store.contacts : c.email = EmailC /\ c.name = "Ann"
    /\ \A u \in Sessions : sessions[u] = Closed

----------------------------------------------------------------------------
(* Properties of the orchestrator's failures *)

FailureSurfaced == caller.failed # {} => caller.raised

----------------------------------------------------------------------------
(* Properties of the columns of an organization *)

\* C29: every Organization has a non-empty domain that no other Organization
\* shares, and an icp_score that is absent or within 0..100, whatever scores
\* the discovery stage supplies.
OrganizationColumns ==
    \A o \in store.organizations :
        /\ o.domain # ""
        /\ \A p \in store.organizations : p.domain = o.domain => p = o
        /\ o.icp_score = NoScore \/ o.icp_score \in 0..100

----------------------------------------------------------------------------
(* Properties of concurrent suppressions *)

\* C37: when transactions call add_suppression for the same email
\* concurrently, no call raises, the committed list never holds two rows of
\* that email, and each call returns a row of that email, which is the
\* committed row once the caller's transaction has committed.
SuppressionRaceSafe ==
    /\ [](\A x, y \in store.suppression_list : x.email = y.email => x = y)
    /\ [][(Step("session_suppress_insert") \/ Step("session_suppress"))
            => last'.exc = "none"]_vars
    /\ [][Step("session_suppress") =>
            /\ Len(last'.ret) = 1
            /\ \E x \in View(last'.args[1]).suppression_list :
                  x.id = last'.ret[1] /\ x.email = last'.args[2]]_vars
    /\ [][Step("commit") =>
            \A g \in sessions[last'.args[1]].got :
               \E x \in store'.suppression_list : x.id = g[2] /\ x.email = g[1]]_vars

\* session 2 called while session 1 held the new row: it waited, session 1
\* committed, the insert of session 2 did nothing and its read-back has
\* returned the row of session 1
SuppressionRaceSafeWitness ==
    /\ last.op = "session_suppress"
    /\ last.args[1] = 2
    /\ sessions[2].waited
    /\ sessions[2].suppressions = {}
    /\ sessions[1].state = "closed"
    /\ \E x \in store.suppression_list :
          /\ store.suppression_list = {x}
          /\ x.email = EmailA
          /\ sessions[2].got = {<<EmailA, x.id>>}

----------------------------------------------------------------------------
(* Properties of the pending touches *)

\* C36: get_pending_touches returns exactly the touches that are scheduled
\* and whose scheduled_date is present and at or before now, each once, dates
\* ascending; every touch run_discovery persists has no scheduled_date, and
\* is therefore never returned.
PendingExact ==
    /\ [][Step("get_pending_touches") =>
            LET ret == last'.ret
                DateOf(id) == (CHOOSE x \in store.email_touches : x.id = id).scheduled_date
            IN /\ {ret[i] : i \in DOMAIN ret} =
                     {x.id : x \in {x \in store.email_touches :
                                       /\ x.status = "scheduled"
                                       /\ x.scheduled_date # NoTime
                                       /\ x.scheduled_date <= now}}
               /\ \A i, j \in DOMAIN ret : i # j => ret[i] # ret[j]
               /\ \A i, j \in DOMAIN ret : i < j => DateOf(ret[i]) <= DateOf(ret[j])]_vars
    /\ [][Step("persist2") =>
            \A x \in store'.email_touches \ store.email_touches :
                x.scheduled_date = NoTime /\ x.status = "scheduled"]_vars

\* the query has returned the two dated touches of one sequence, the earlier
\* one first, and none of the two scheduled touches a discovery run persisted
PendingExactWitness ==
    /\ last.op = "get_pending_touches"
    /\ Len(last.ret) = 2
    /\ \E x, y \in store.email_touches :
          /\ last.ret = <<x.id, y.id>>
          /\ x.scheduled_date = 0 /\ y.scheduled_date = 1
    /\ Cardinality({x \in store.email_touches :
                       x.scheduled_date = NoTime /\ x.status = "scheduled"}) = 2

----------------------------------------------------------------------------
(* Properties of the batches of a discovery run *)

\* C35: Stage 1 persists all qualified leads in one transaction and Stage 2
\* all sequences in one transaction: a failure while writing one lead,
\* contact, event or sequence leaves the store as it was before the stage; a
\* lead with no parseable domain and a sequence with no matching organization
\* are skipped, the others of the batch being written.
BatchAtomic ==
    /\ [][Step("persist1") =>
            LET q == discovery.qualified
                Parseable == {i \in DOMAIN q : DomainOf(q[i].website) # ""}
                Sound == \A i \in Parseable :
                            \A k \in DOMAIN q[i].contacts : q[i].contacts[k] # NoEmail
            IN /\ last'.exc # "none" => store' = store
               /\ (Sound /\ ~last'.args[1]) => last'.exc = "none"
               /\ last'.exc = "none" =>
                     \A i \in Parseable :
                        /\ \E o \in store'.organizations :
                              o.domain = DomainOf(q[i].website) /\ o.icp_score = q[i].score
                        /\ \A k \in DOMAIN q[i].contacts :
                              \E c \in store'.contacts :
                                 c.email = NormEmail(q[i].contacts[k])]_vars
    /\ [][Step("persist2") =>
            LET seqs == last'.args[3]
                Matched == {i \in DOMAIN seqs :
                               PersistedOrgs(store, discovery.qualified,
                                             seqs[i].lead_name) # {}}
                Sound == \A i \in Matched :
                            \A k \in DOMAIN seqs[i].numbers : TouchNumberOk(seqs[i].numbers[k])
            IN /\ last'.exc # "none" => store' = store
               /\ (Sound /\ ~last'.args[2]) => last'.exc = "none"
               /\ last'.exc = "none" =>
                     Cardinality(store'.email_sequences)
                        = Cardinality(store.email_sequences) + Cardinality(Matched)]_vars

\* Stage 1 has skipped the lead without a domain and written the other one;
\* Stage 2 has then failed on its second sequence, and the first one, which
\* had been written, is not stored
BatchAtomicWitness ==
    /\ last.op = "persist2"
    /\ last.exc = "db"
    /\ ~last.args[2]
    /\ last.args[3][1].numbers = GoodNumbers(2)
    /\ last.args[3][2].numbers = <<1, NoNumber>>
    /\ discovery.qualified = <<NoDomainLead, KnownLead>>
    /\ discovery.log = {"persist2"}
    /\ store.email_sequences = {}
    /\ store.email_touches = {}
    /\ \E o \in store.organizations : o.domain = "acme.org" /\ o.icp_score = 80

----------------------------------------------------------------------------
(* Properties of the row of a sequence *)

\* C34: once create_sequence has returned, no operation changes the
\* EmailSequence row: its ICP snapshot, its personalization hook and its
\* status stay what they were, whatever touches are sent or cancelled.
SequenceFrozen ==
    [][\A q \in store.email_sequences : q \in store'.email_sequences]_vars

\* the last scheduled touch of a sequence has just been cancelled, the other
\* one having been sent: the sequence is active, with its hook and snapshot
SequenceFrozenWitness ==
    /\ last.op = "cancel_remaining_touches"
    /\ last.ret = <<1>>
    /\ \E q \in store.email_sequences :
          /\ q.personalization_hook = "hook-a"
          /\ q.icp_profile_snapshot = "icp-v1"
          /\ q.status = "active"
          /\ \E t, u \in store.email_touches :
                /\ t.sequence_id = q.id /\ t.status = "sent"
                /\ u.sequence_id = q.id /\ u.status = "cancelled"
          /\ \A t \in store.email_touches :
                t.sequence_id = q.id => t.status \in {"sent", "cancelled"}

----------------------------------------------------------------------------
(* Properties of the outreach window of an event *)

\* C33: the 4-to-12-month window query selects an event exactly when today
\* lies between the event's outreach_window_open and outreach_window_close,
\* both included, also when a month end is clamped.
WindowIsOutreachWindow ==
    [][(Step("get_upcoming_events") /\ last'.args = <<4, 12>>) =>
          \A e \in store.events :
              (\E i \in DOMAIN last'.ret : last'.ret[i] = e.id)
              <=> /\ e.event_date # NoTime
                  /\ outreach_window_open(e) <= Today(now)
                  /\ Today(now) <= outreach_window_close(e)]_vars

----------------------------------------------------------------------------
(* Properties of the stage check *)

\* C32: every Organization's pipeline_stage is one of the 19 listed stages; an
\* upsert or update_stage supplying any other value fails and leaves the store
\* as it was; update_stage on an unknown org_id returns nothing and changes no
\* row.
StageChecked ==
    /\ [](/\ Cardinality(PIPELINE_STAGES) = 19
          /\ \A o \in store.organizations : o.pipeline_stage \in PIPELINE_STAGES)
    /\ [][(Step("update_stage") /\ last'.args[1] \in Ids(store.organizations)
                                /\ last'.args[2] \notin PIPELINE_STAGES)
            => (last'.exc # "none" /\ last'.ret = <<>> /\ store' = store)]_vars
    /\ [][(Step("update_stage") /\ last'.args[1] \notin Ids(store.organizations))
            => (last'.exc = "none" /\ last'.ret = <<>> /\ store' = store)]_vars
    /\ [][(Step("org_upsert") /\ last'.args[1].pipeline_stage
                                    \notin PIPELINE_STAGES \cup {Unset})
            => (last'.exc # "none" /\ last'.ret = <<>> /\ store' = store)]_vars

\* update_stage has just been refused an unlisted stage for an organization
\* that an earlier call had moved to "booked", beside an upserted organization
StageCheckedWitness ==
    /\ last.op = "update_stage"
    /\ last.args = <<1, "bogus">>
    /\ last.exc = "db"
    /\ \E o \in store.organizations : o.id = 1 /\ o.pipeline_stage = "booked"
    /\ \E o \in store.organizations : o.domain = "expo.com" /\ o.pipeline_stage = "qualified"

----------------------------------------------------------------------------
(* Properties of a campaign persisted again *)

\* C31: persisting the same campaign again creates no second EmailSequence,
\* and no second set of scheduled touches, for the same (organization,
\* contact) pair.
CampaignOnce ==
    /\ \A a, b \in store.email_sequences :
          (a.org_id = b.org_id /\ a.contact_id = b.contact_id) => a = b
    /\ \A t, u \in store.email_touches :
          (/\ t.org_id = u.org_id /\ t.contact_id = u.contact_id
           /\ t.touch_number = u.touch_number
           /\ t.status = "scheduled" /\ u.status = "scheduled") => t = u

----------------------------------------------------------------------------
(* Properties of the nurture loop *)

\* C30: once a NURTURE reply with a recontact date is recorded for an
\* organization, the organization has a next_outreach_date no earlier than
\* that date; get_due_for_outreach returns exactly the organizations that are
\* not disqualified and whose next_outreach_date is present and has passed.
NurtureReenters ==
    /\ [](\A r \in store.inbound_replies :
             (r.classification = "NURTURE" /\ r.recontact_date # NoTime /\ r.org_id # NoId)
             => \E o \in store.organizations :
                   /\ o.id = r.org_id
                   /\ o.next_outreach_date # NoTime
                   /\ o.next_outreach_date >= r.recontact_date)
    /\ [][Step("get_due_for_outreach") =>
            LET ret == last'.ret
            IN /\ {ret[i] : i \in DOMAIN ret} =
                     {o.id : o \in {o \in store.organizations :
                                       /\ ~o.disqualified
                                       /\ o.next_outreach_date # NoTime
                                       /\ o.next_outreach_date <= now}}
               /\ \A i, j \in DOMAIN ret : i # j => ret[i] # ret[j]]_vars

----------------------------------------------------------------------------
(* Properties of the records of calls and meetings *)

\* C28: every CallRecord and every Meeting, once stored, stays stored as it
\* was written; the grant timestamp of a CallRecord is set exactly when its
\* call_permission_granted is true.
AppendOnly ==
    /\ [][/\ \A c \in store.call_records : c \in store'.call_records
          /\ \A m \in store.meetings : m \in store'.meetings]_vars
    /\ [](\A c \in store.call_records :
             c.call_permission_granted <=> c.call_permission_granted_at # NoTime)

\* a booking run has recorded a second call, granted, and a meeting that
\* refers to it, beside an earlier call without permission
AppendOnlyWitness ==
    /\ last.op = "run_meeting_booking"
    /\ last.exc = "none"
    /\ \E c, d \in store.call_records :
          /\ c.id = 1 /\ ~c.call_permission_granted /\ c.call_permission_granted_at = NoTime
          /\ d.id = 2 /\ d.call_permission_granted /\ d.call_permission_granted_at = 1
          /\ \E m \in store.meetings : m.call_record_id = d.id

----------------------------------------------------------------------------
(* Properties of the call gate *)

\* C1: every CallRecord whose call_status is other than SKIPPED was written
\* when a record with call_permission_granted = true had already been
\* persisted for its organization.
CallGate ==
    \A c \in store.call_records :
       c.call_status # "SKIPPED" =>
          \E g \in store.call_records :
             g.id < c.id /\ g.org_id = c.org_id /\ g.call_permission_granted

\* C2: every call the voice collaborator has placed for a lead was preceded by
\* a persisted record of that lead with call_permission_granted = true and a
\* grant timestamp earlier than the call, and permission is passed as true only
\* for a lead with two replies classified INTERESTED.
CallAfterPersistedGrant ==
    /\ \A p \in placed :
          \E g \in store.call_records :
             /\ g.contact_id = get_by_email(store, p.email).id
             /\ g.call_permission_granted
             /\ g.call_permission_granted_at # NoTime
             /\ g.call_permission_granted_at < p.at
    /\ (booking.stage = "agent_done" /\ booking.call_permission_granted) =>
          Cardinality({x \in store.inbound_replies :
                          /\ x.contact_id = get_by_email(store, booking.contact_email).id
                          /\ x.classification = "INTERESTED"}) >= 2

----------------------------------------------------------------------------
(* Properties of the tools *)

\* the call recorded in `l` met a failure: a request it made failed, or a
\* value of its configuration was absent or unusable
ToolFailed(l) ==
    LET env == l.args[1]
        \* the variable the tool cannot do without
        RequiredKey ==
           CASE l.op \in ToolsOf.exa -> "EXA_API_KEY"
             [] l.op \in ToolsOf.hunter -> "HUNTER_API_KEY"
             [] l.op \in ToolsOf.elevenlabs -> "ELEVENLABS_API_KEY"
             [] l.op \in ToolsOf.calendar -> "GOOGLE_APPLICATION_CREDENTIALS"
             [] OTHER -> "CTX_SEARCH_TIMEOUT"
        reused == l.op = "elevenlabs_create_conv_agent"
                     /\ env["ELEVENLABS_CONV_AGENT_ID"] # Unset
    IN IF reused THEN FALSE
       ELSE \/ l.args[3] = "fails"
            \/ l.op # "ctx_search" /\ env[RequiredKey] = Unset
            \/ l.op = "ctx_search" /\ env["CTX_SEARCH_TIMEOUT"] = "abc"
            \/ l.op \in ToolsOf.calendar /\ l.args[2] = NoText
                  /\ env["DECLAN_CALENDAR_ID"] = Unset

\* C38: a call of any external-service tool function (search, enrichment,
\* campaign, calendar, voice, context search) whose request or configuration
\* lookup fails raises nothing and returns a result with an 'error' key and
\* an empty payload.
ToolsReturnErrorValue ==
    [][\A f \in Tools :
          (Step(f) /\ ToolFailed(last')) =>
             /\ last'.exc = "none"
             /\ last'.ret = <<1, 0>>]_vars

====
